---------------------------- MODULE Spec2Model ----------------------------
(***************************************************************************)
(* A model of the distributed binary server: the Node broadcast engine     *)
(* (pkg/btree/node.go), the TCP transport (pkg/transport/tcp) and the      *)
(* tree-node assembly (pkg/factory).                                       *)
(*                                                                         *)
(* Three specifications share the module:                                  *)
(*   Spec     the Node: its processing task, an external caller of its     *)
(*            methods, a producer on the inbound queue and readers of the  *)
(*            child queues;                                                *)
(*   SpecAsm  the assembly with one configured child: the Node's           *)
(*            processing task, the bridging task, the connection-retry     *)
(*            task, the Client's transport, and Stop;                      *)
(*   SpecSrv  the server role of the transport: accepted connections,      *)
(*            their reader loops and the inbound queue.                    *)
(* A specification leaves the variables of the parts it does not run at    *)
(* their initial values.                                                   *)
(***************************************************************************)
EXTENDS Integers, Sequences, FiniteSets, TLC

(***************************************************************************)
(* Bounds of the model.                                                    *)
(***************************************************************************)
\* The largest arity NewNode is called with.
MaxArity == 2

\* The capacity of every queue of the model.  The code makes each channel
\* with capacity 100 (node.go:27, node.go:32); the model scales it down.
ChanCap == 2

\* How many calls the environment makes in one behaviour (messages put on
\* the inbound queue plus calls of the external caller).
MaxOps == ChanCap + 1

(***************************************************************************)
(* Messages (pkg/btree/message.go).  A content is a sequence of bytes.     *)
(***************************************************************************)
LF == "\n"
CR == "\r"

\* The zero value of Message.
NoMsg == [Content |-> <<>>, ID |-> "", Timestamp |-> 0, Source |-> ""]

\* The messages the environment hands to the Node.
InputMsgs ==
    { [Content |-> <<"a">>, ID |-> "id1", Timestamp |-> 1, Source |-> ""],
      [Content |-> <<"b">>, ID |-> "", Timestamp |-> 2, Source |-> "peer"] }

\* The messages a producer puts on the inbound queue, and the message the
\* external caller passes to the Node's methods.
ProducerMsgs == {m \in InputMsgs : m.Source = ""}
CallerMsgs == {m \in InputMsgs : m.Source = "peer"}

\* n.name
NodeName == "node"

(***************************************************************************)
(* The Node.                                                               *)
(***************************************************************************)
VARIABLES
    numChildren,  \* the numChildren argument NewNode was called with
    inbound,      \* n.inbound
    childrenOut,  \* n.childrenOut: a sequence of queues
    nodeDone,     \* n.ctx is cancelled
    pc,           \* per task: where it is
    msg,          \* per task: the msg local of HandleMessage/BroadcastToChildren/SendToChild
    arg,          \* per task: the message the current call was given
    idx,          \* per task: the slot the call is at (1-based)
    ret,          \* per task: what the last call returned
    op,           \* per task: the method of the current or last call
    extIdx,       \* the index argument of the external caller's last call
    extChan,      \* the queue GetChildChannel last returned (0: nil)
    extDone,      \* the external caller's context is cancelled
    ops           \* calls the environment has made

nodeVars == <<numChildren, inbound, childrenOut, nodeDone, pc, msg, arg, idx,
              ret, op, extIdx, extChan, extDone, ops>>

(***************************************************************************)
(* The transports (TCPTransport), one per instance: 0 is the Server's, a   *)
(* slot number is the transport of that slot's Client.                     *)
(***************************************************************************)
VARIABLES
    tInbound,   \* t.inbound
    tOutbound,  \* t.outbound
    inClosed,   \* t.inbound has been closed
    outClosed,  \* t.outbound has been closed
    listener,   \* t.listener: "nil", "open", "closed"
    conn,       \* t.conn: "nil", "open", "closed"
    isServer,   \* t.isServer
    isClient,   \* t.isClient
    tDone,      \* t.ctx is cancelled
    wg,         \* t.wg: the loops it counts
    mu,         \* t.mu: "free", or the method holding the write lock
    outPc,      \* processOutbound: where it is
    outMsg,     \* processOutbound: the message taken from t.outbound
    closePc,    \* Close: where it is
    wire        \* the bytes written on t.conn

tVars == <<tInbound, tOutbound, inClosed, outClosed, listener, conn, isServer,
           isClient, tDone, wg, mu, outPc, outMsg, closePc, wire>>

(***************************************************************************)
(* The assembly (BTreeNode).                                               *)
(***************************************************************************)
VARIABLES
    config,     \* config.ChildrenPorts
    asmPc,      \* "created", "started"
    bnDone,     \* bn.ctx is cancelled
    stopPc,     \* Stop: where it is
    stopIdx,    \* Stop: the slot whose Client it closes
    connPc,     \* per slot, connectToChild: where it is
    attempt,    \* per slot, connectToChild: the loop variable i (0 once it has
                \* returned before the last iteration)
    bridgePc,   \* per slot, wireChildOutbound: where it is
    bridgeMsg,  \* per slot, wireChildOutbound: the message taken
    panicked    \* the process has crashed

asmVars == <<config, asmPc, bnDone, stopPc, stopIdx, connPc, attempt, bridgePc,
             bridgeMsg, panicked>>

(***************************************************************************)
(* The server role of the Server's transport: the accept loop, one         *)
(* connection of a peer and its reader loop (handleConnection), and a      *)
(* consumer of the inbound queue.                                          *)
(***************************************************************************)
VARIABLES
    listenPc,    \* Listen has been called: "none", "ok", "failed"
    listenDone,  \* the context Listen was given is cancelled
    acceptPc,    \* acceptConnections: where it is
    connState,   \* the peer's connection: "none", "pending", "accepted", "closed"
    rx,          \* the bytes the peer has written on the connection
    peerClosed,  \* the peer has closed its end
    rdPc,        \* handleConnection: where it is
    rdPos,       \* how many bytes of rx the scanner has consumed
    text,        \* scanner.Text()
    scanErr,     \* scanner.Err()
    linesRead,   \* the tokens the scanner has returned, in order
    got          \* the messages the consumer has taken from t.inbound

srvVars == <<listenPc, listenDone, acceptPc, connState, rx, peerClosed, rdPc,
             rdPos, text, scanErr, linesRead, got>>

(***************************************************************************)
(* Direct users of the parts: the readers of the child queues that keep    *)
(* what they read, and the loop a direct call of Connect starts on the     *)
(* Server's transport.                                                     *)
(***************************************************************************)
VARIABLES
    received,   \* per slot: the messages its reader has taken, in order
    out2Pc,     \* processOutbound started by Connect on the Server's transport
    out2Msg,    \* the message that processOutbound holds
    tRet,       \* what the last Listen or Connect on that transport returned
    conn2,      \* a second connection to the Server and its handleConnection
    tree,       \* a child Node bridged to the first child queue, and the bridging task
    loop2,      \* the processing task a second call of Start spawns
    sent,       \* the contents handed to the Client's sendMessage, in order
    inb         \* the inbound bridge: where it is and the Message it holds

usrVars == <<received, out2Pc, out2Msg, tRet, conn2, tree, loop2, sent, inb>>

vars == <<nodeVars, tVars, asmVars, srvVars, usrVars>>

\* The tasks: the processing task Start spawns, and one external caller.
LoopTask == "loop"
ExtTask == "ext"
Tasks == {LoopTask, ExtTask}

\* NewNode: numChildren empty child queues and an empty inbound queue.
NewNode(a) ==
    [inbound |-> <<>>, childrenOut |-> [i \in 1..a |-> <<>>], done |-> FALSE]

\* GetNumChildren
GetNumChildren == Len(childrenOut)

\* A variant of the index check that admits index = len(n.childrenOut).
InRangeInclusive(index) == ~(index < 0 \/ index > Len(childrenOut))

\* The index check of GetChildChannel and SendToChild; the code's indices are
\* 0-based, the model's queues 1-based.
InRange(index) == ~(index < 0 \/ index >= Len(childrenOut))

\* A variant of the rewrite that builds a fresh message around the content.
StampFresh(m) == [NoMsg EXCEPT !.Content = m.Content, !.Source = NodeName]

\* HandleMessage's rewrite: msg.Source = n.name.
Stamp(m) == [m EXCEPT !.Source = NodeName]

\* The context a task's call runs under: n.ctx for the processing task, the
\* caller's own for the external caller.
CtxDone(t) == IF t = LoopTask THEN nodeDone ELSE extDone

\* A variant of the select without its default case: it waits for the send.
BroadcastSelectNoDefault(q, m, done) ==
    (IF Len(q) < ChanCap THEN {[kind |-> "sent", q |-> Append(q, m)]} ELSE {})
    \cup (IF done THEN {[kind |-> "cancelled", q |-> q]} ELSE {})

\* A variant of the select that gives the broadcast up at the first full queue.
BroadcastSelectAllOrNothing(q, m, done) ==
    (IF Len(q) < ChanCap THEN {[kind |-> "sent", q |-> Append(q, m)]} ELSE {})
    \cup (IF done \/ Len(q) >= ChanCap THEN {[kind |-> "cancelled", q |-> q]} ELSE {})

\* A variant of the select whose send is lost when the queue is empty.
BroadcastSelectLossy(q, m, done) ==
    (IF Len(q) < ChanCap
     THEN {[kind |-> "sent", q |-> IF q = <<>> THEN q ELSE Append(q, m)]} ELSE {})
    \cup (IF done THEN {[kind |-> "cancelled", q |-> q]} ELSE {})
    \cup (IF Len(q) >= ChanCap /\ ~done THEN {[kind |-> "default", q |-> q]} ELSE {})

\* A variant of the select whose send puts the message at the head of the queue.
BroadcastSelectAtHead(q, m, done) ==
    (IF Len(q) < ChanCap THEN {[kind |-> "sent", q |-> <<m>> \o q]} ELSE {})
    \cup (IF done THEN {[kind |-> "cancelled", q |-> q]} ELSE {})
    \cup (IF Len(q) >= ChanCap /\ ~done THEN {[kind |-> "default", q |-> q]} ELSE {})

\* The select of BroadcastToChildren on one child queue q: the outcomes the
\* runtime can choose.  A send that can proceed and a cancelled context are
\* both ready cases; default is taken only when no case is ready.
BroadcastSelect(q, m, done) ==
    (IF Len(q) < ChanCap THEN {[kind |-> "sent", q |-> Append(q, m)]} ELSE {})
    \cup (IF done THEN {[kind |-> "cancelled", q |-> q]} ELSE {})
    \cup (IF Len(q) >= ChanCap /\ ~done THEN {[kind |-> "default", q |-> q]} ELSE {})

\* A variant of SendToChild's select with a default case: a full queue is
\* answered at once.
SendSelectWithDefault(q, m, done) ==
    (IF Len(q) < ChanCap THEN {[kind |-> "sent", q |-> Append(q, m)]} ELSE {})
    \cup (IF done THEN {[kind |-> "cancelled", q |-> q]} ELSE {})
    \cup (IF Len(q) >= ChanCap /\ ~done THEN {[kind |-> "default", q |-> q]} ELSE {})

\* The select of SendToChild on one child queue q: no default.
SendSelect(q, m, done) ==
    (IF Len(q) < ChanCap THEN {[kind |-> "sent", q |-> Append(q, m)]} ELSE {})
    \cup (IF done THEN {[kind |-> "cancelled", q |-> q]} ELSE {})

\* A variant in which the processing task ends when a call of HandleMessage
\* returns.
HomeEndsLoop(t) == IF t = LoopTask THEN "stopped" ELSE "idle"

\* Where a task goes when its call returns.
Home(t) == IF t = LoopTask THEN "select" ELSE "idle"

\* A call of task t returns r: its locals are gone.
Return(t, r) ==
    /\ pc' = [pc EXCEPT ![t] = Home(t)]
    /\ ret' = [ret EXCEPT ![t] = r]
    /\ msg' = [msg EXCEPT ![t] = NoMsg]
    /\ arg' = [arg EXCEPT ![t] = NoMsg]
    /\ idx' = [idx EXCEPT ![t] = 0]

\* The transport instances: the Server's and the Clients', by slot.
ServerT == 0
ClientSlots == {1}
TIds == {ServerT} \cup ClientSlots

\* The Server's transport before Listen, no peer yet.
InitServer ==
    /\ listenPc = "none"
    /\ listenDone = FALSE
    /\ acceptPc = "none"
    /\ connState = "none"
    /\ rx = <<>>
    /\ peerClosed = FALSE
    /\ rdPc = "none"
    /\ rdPos = 0
    /\ text = <<>>
    /\ scanErr = "nil"
    /\ linesRead = <<>>
    /\ got = <<>>

\* No second connection: nothing dialled, nothing written, no reader.
NoConn2 ==
    [state |-> "none", rx |-> <<>>, peerClosed |-> FALSE, rdPc |-> "none",
     rdPos |-> 0, text |-> <<>>, scanErr |-> "nil"]

\* A child Node just built, not started, and a bridging task that holds
\* nothing.
NoTree ==
    [inbound |-> <<>>, pc |-> "none", msg |-> NoMsg, handled |-> <<>>,
     seen |-> <<>>, fwd |-> NoMsg, bridgePc |-> "range"]

\* No second processing task: Start has been called once at most.
NoLoop2 == [pc |-> "none", msg |-> NoMsg, idx |-> 0]

\* The inbound bridge as Start spawns it: at its select, holding nothing.
NoInb == [pc |-> "select", msg |-> NoMsg]

\* No reader has read and Connect has not been called on the Server's
\* transport.
InitUsers ==
    /\ received = [i \in 1..MaxArity |-> <<>>]
    /\ out2Pc = "none"
    /\ out2Msg = NoMsg
    /\ tRet = [call |-> "none", err |-> "nil"]
    /\ conn2 = NoConn2
    /\ tree = NoTree
    /\ loop2 = NoLoop2
    /\ sent = <<>>
    /\ inb = NoInb

\* NewNode(name, a), nothing called yet.
InitNode(a) ==
    /\ numChildren = a
    /\ inbound = NewNode(a).inbound
    /\ childrenOut = NewNode(a).childrenOut
    /\ nodeDone = NewNode(a).done
    /\ pc = [t \in Tasks |-> IF t = LoopTask THEN "none" ELSE "idle"]
    /\ msg = [t \in Tasks |-> NoMsg]
    /\ arg = [t \in Tasks |-> NoMsg]
    /\ idx = [t \in Tasks |-> 0]
    /\ ret = [t \in Tasks |-> "none"]
    /\ op = [t \in Tasks |-> "none"]
    /\ extIdx = 0
    /\ extChan = 0
    /\ extDone = FALSE
    /\ ops = 0

\* NewTCPTransport, for every instance.
InitTransports ==
    /\ tInbound = [t \in TIds |-> <<>>]
    /\ tOutbound = [t \in TIds |-> <<>>]
    /\ inClosed = [t \in TIds |-> FALSE]
    /\ outClosed = [t \in TIds |-> FALSE]
    /\ listener = [t \in TIds |-> "nil"]
    /\ conn = [t \in TIds |-> "nil"]
    /\ isServer = [t \in TIds |-> FALSE]
    /\ isClient = [t \in TIds |-> FALSE]
    /\ tDone = [t \in TIds |-> FALSE]
    /\ wg = [t \in TIds |-> 0]
    /\ mu = [t \in TIds |-> "free"]
    /\ outPc = [t \in TIds |-> "none"]
    /\ outMsg = [t \in TIds |-> NoMsg]
    /\ closePc = [t \in TIds |-> "none"]
    /\ wire = [t \in TIds |-> <<>>]

\* NewBTreeNode(config, factory), nothing called yet; with no assembly
\* around the Node, asmPc is "none".
InitAssembly(ports, state) ==
    /\ config = ports
    /\ asmPc = state
    /\ bnDone = FALSE
    /\ stopPc = "none"
    /\ stopIdx = 0
    /\ connPc = [i \in ClientSlots |-> "none"]
    /\ attempt = [i \in ClientSlots |-> 0]
    /\ bridgePc = [i \in ClientSlots |-> "none"]
    /\ bridgeMsg = [i \in ClientSlots |-> NoMsg]
    /\ panicked = FALSE

Init ==
    /\ \E a \in 0..MaxArity : InitNode(a)
    /\ InitTransports
    /\ InitAssembly(<<>>, "none")
    /\ InitServer
    /\ InitUsers

\* Start: go n.messageLoop()
Start ==
    /\ ~panicked
    /\ UNCHANGED usrVars
    /\ UNCHANGED srvVars
    /\ pc[LoopTask] = "none"
    /\ pc' = [pc EXCEPT ![LoopTask] = "select"]
    /\ UNCHANGED <<numChildren, inbound, childrenOut, nodeDone, msg, arg, idx,
                   ret, op, extIdx, extChan, extDone, ops>>
    /\ UNCHANGED <<tVars, asmVars>>

\* A variant of Stop that also lets go of the child queues.
StopDropsQueues ==
    /\ ~panicked
    /\ UNCHANGED usrVars
    /\ UNCHANGED srvVars
    /\ ~nodeDone
    /\ nodeDone' = TRUE
    /\ childrenOut' = <<>>
    /\ UNCHANGED <<numChildren, inbound, pc, msg, arg, idx, ret, op, extIdx,
                   extChan, extDone, ops>>
    /\ UNCHANGED <<tVars, asmVars>>

\* Stop: n.cancel()
Stop ==
    /\ ~panicked
    /\ UNCHANGED usrVars
    /\ UNCHANGED srvVars
    /\ ~nodeDone
    /\ nodeDone' = TRUE
    /\ UNCHANGED <<numChildren, inbound, childrenOut, pc, msg, arg, idx, ret,
                   op, extIdx, extChan, extDone, ops>>
    /\ UNCHANGED <<tVars, asmVars>>

\* The external caller's context is cancelled.
CancelExt ==
    /\ ~panicked
    /\ UNCHANGED usrVars
    /\ UNCHANGED srvVars
    /\ ~extDone
    /\ extDone' = TRUE
    /\ UNCHANGED <<numChildren, inbound, childrenOut, nodeDone, pc, msg, arg,
                   idx, ret, op, extIdx, extChan, ops>>
    /\ UNCHANGED <<tVars, asmVars>>

\* A producer sends m on GetInboundChannel().
Produce(m) ==
    /\ ~panicked
    /\ UNCHANGED usrVars
    /\ UNCHANGED srvVars
    /\ ops < MaxOps
    /\ Len(inbound) < ChanCap
    /\ inbound' = Append(inbound, m)
    /\ ops' = ops + 1
    /\ UNCHANGED <<numChildren, childrenOut, nodeDone, pc, msg, arg, idx, ret,
                   op, extIdx, extChan, extDone>>
    /\ UNCHANGED <<tVars, asmVars>>

\* A reader receives from child queue i (a test's reader, the assembly's
\* bridging task).
ReadChild(i) ==
    /\ ~panicked
    /\ UNCHANGED usrVars
    /\ UNCHANGED srvVars
    /\ i \in 1..Len(childrenOut)
    /\ Len(childrenOut[i]) > 0
    /\ childrenOut' = [childrenOut EXCEPT ![i] = Tail(@)]
    /\ UNCHANGED <<numChildren, inbound, nodeDone, pc, msg, arg, idx, ret, op,
                   extIdx, extChan, extDone, ops>>
    /\ UNCHANGED <<tVars, asmVars>>

\* A variant of the entry that looks at the context before the number of
\* children: a cancelled context is answered with its error.
EnterBroadcastCtxFirst(t, o, a, m) ==
    /\ op' = [op EXCEPT ![t] = o]
    /\ IF CtxDone(t)
       THEN Return(t, "ctxErr")
       ELSE IF Len(childrenOut) = 0
       THEN Return(t, "nil")
       ELSE /\ pc' = [pc EXCEPT ![t] = "broadcast"]
            /\ ret' = [ret EXCEPT ![t] = "none"]
            /\ arg' = [arg EXCEPT ![t] = a]
            /\ msg' = [msg EXCEPT ![t] = m]
            /\ idx' = [idx EXCEPT ![t] = 1]

\* The entry of BroadcastToChildren(ctx, m) in task t, called as method o:
\* with no children it returns nil at once, else the loop starts at slot 1.
EnterBroadcast(t, o, a, m) ==
    /\ op' = [op EXCEPT ![t] = o]
    /\ IF Len(childrenOut) = 0
       THEN Return(t, "nil")
       ELSE /\ pc' = [pc EXCEPT ![t] = "broadcast"]
            /\ ret' = [ret EXCEPT ![t] = "none"]
            /\ arg' = [arg EXCEPT ![t] = a]
            /\ msg' = [msg EXCEPT ![t] = m]
            /\ idx' = [idx EXCEPT ![t] = 1]

\* HandleMessage(ctx, m) in task t: the source is rewritten, then
\* BroadcastToChildren.
HandleMessage(t, m) == EnterBroadcast(t, "HandleMessage", m, Stamp(m))

\* messageLoop, case msg := <-n.inbound: HandleMessage(n.ctx, msg).
LoopReceive ==
    /\ ~panicked
    /\ UNCHANGED usrVars
    /\ UNCHANGED srvVars
    /\ pc[LoopTask] = "select"
    /\ Len(inbound) > 0
    /\ inbound' = Tail(inbound)
    /\ HandleMessage(LoopTask, Head(inbound))
    /\ UNCHANGED <<numChildren, childrenOut, nodeDone, extIdx, extChan,
                   extDone, ops>>
    /\ UNCHANGED <<tVars, asmVars>>

\* messageLoop, case <-n.ctx.Done(): return.
LoopStopped ==
    /\ ~panicked
    /\ UNCHANGED usrVars
    /\ UNCHANGED srvVars
    /\ pc[LoopTask] = "select"
    /\ nodeDone
    /\ pc' = [pc EXCEPT ![LoopTask] = "stopped"]
    /\ UNCHANGED <<numChildren, inbound, childrenOut, nodeDone, msg, arg, idx,
                   ret, op, extIdx, extChan, extDone, ops>>
    /\ UNCHANGED <<tVars, asmVars>>

\* One iteration of BroadcastToChildren's loop in task t: the select on the
\* queue of slot idx[t].
BroadcastStep(t) ==
    /\ ~panicked
    /\ UNCHANGED usrVars
    /\ UNCHANGED srvVars
    /\ pc[t] = "broadcast"
    /\ \E o \in BroadcastSelect(childrenOut[idx[t]], msg[t], CtxDone(t)) :
        /\ childrenOut' = [childrenOut EXCEPT ![idx[t]] = o.q]
        /\ IF o.kind = "cancelled"
           THEN Return(t, "ctxErr")
           ELSE IF idx[t] = Len(childrenOut)
           THEN Return(t, "nil")
           ELSE /\ idx' = [idx EXCEPT ![t] = @ + 1]
                /\ UNCHANGED <<pc, ret, msg, arg>>
    /\ UNCHANGED <<numChildren, inbound, nodeDone, op, extIdx, extChan,
                   extDone, ops>>
    /\ UNCHANGED <<tVars, asmVars>>

\* The external caller calls HandleMessage(ctx, m).
ExtHandleMessage(m) ==
    /\ ~panicked
    /\ UNCHANGED usrVars
    /\ UNCHANGED srvVars
    /\ pc[ExtTask] = "idle"
    /\ ops < MaxOps
    /\ ops' = ops + 1
    /\ HandleMessage(ExtTask, m)
    /\ extIdx' = 0
    /\ extChan' = 0
    /\ UNCHANGED <<numChildren, inbound, childrenOut, nodeDone, extDone>>
    /\ UNCHANGED <<tVars, asmVars>>

\* The external caller calls BroadcastToChildren(ctx, m).
ExtBroadcastToChildren(m) ==
    /\ ~panicked
    /\ UNCHANGED usrVars
    /\ UNCHANGED srvVars
    /\ pc[ExtTask] = "idle"
    /\ ops < MaxOps
    /\ ops' = ops + 1
    /\ EnterBroadcast(ExtTask, "BroadcastToChildren", m, m)
    /\ extIdx' = 0
    /\ extChan' = 0
    /\ UNCHANGED <<numChildren, inbound, childrenOut, nodeDone, extDone>>
    /\ UNCHANGED <<tVars, asmVars>>

\* The external caller calls SendToChild(ctx, index, m): an index error, or
\* the select on the queue of the slot.
SendToChild(index, m) ==
    /\ ~panicked
    /\ UNCHANGED usrVars
    /\ UNCHANGED srvVars
    /\ pc[ExtTask] = "idle"
    /\ ops < MaxOps
    /\ ops' = ops + 1
    /\ op' = [op EXCEPT ![ExtTask] = "SendToChild"]
    /\ extIdx' = index
    /\ IF InRange(index)
       THEN /\ pc' = [pc EXCEPT ![ExtTask] = "send"]
            /\ ret' = [ret EXCEPT ![ExtTask] = "none"]
            /\ arg' = [arg EXCEPT ![ExtTask] = m]
            /\ msg' = [msg EXCEPT ![ExtTask] = m]
            /\ idx' = [idx EXCEPT ![ExtTask] = index + 1]
       ELSE Return(ExtTask, "indexErr")
    /\ extChan' = 0
    /\ UNCHANGED <<numChildren, inbound, childrenOut, nodeDone, extDone>>
    /\ UNCHANGED <<tVars, asmVars>>

\* SendToChild's select: it waits until the send can proceed or the context
\* is cancelled.
SendStep ==
    /\ ~panicked
    /\ UNCHANGED usrVars
    /\ UNCHANGED srvVars
    /\ pc[ExtTask] = "send"
    /\ \E o \in SendSelect(childrenOut[idx[ExtTask]], msg[ExtTask], extDone) :
        /\ childrenOut' = [childrenOut EXCEPT ![idx[ExtTask]] = o.q]
        /\ Return(ExtTask, IF o.kind = "sent" THEN "nil" ELSE "ctxErr")
    /\ UNCHANGED <<numChildren, inbound, nodeDone, op, extIdx, extChan,
                   extDone, ops>>
    /\ UNCHANGED <<tVars, asmVars>>

\* The external caller calls GetChildChannel(index).
GetChildChannel(index) ==
    /\ ~panicked
    /\ UNCHANGED usrVars
    /\ UNCHANGED srvVars
    /\ pc[ExtTask] = "idle"
    /\ ops < MaxOps
    /\ ops' = ops + 1
    /\ op' = [op EXCEPT ![ExtTask] = "GetChildChannel"]
    /\ extIdx' = index
    /\ IF InRange(index)
       THEN /\ ret' = [ret EXCEPT ![ExtTask] = "nil"]
            /\ extChan' = index + 1
       ELSE /\ ret' = [ret EXCEPT ![ExtTask] = "indexErr"]
            /\ extChan' = 0
    /\ UNCHANGED <<numChildren, inbound, childrenOut, nodeDone, pc, msg, arg,
                   idx, extDone>>
    /\ UNCHANGED <<tVars, asmVars>>

\* The indices the external caller passes: below, inside and above [0, arity).
Indices == -1..MaxArity

Next ==
    \/ Start
    \/ Stop
    \/ CancelExt
    \/ \E m \in ProducerMsgs : Produce(m)
    \/ \E i \in 1..MaxArity : ReadChild(i)
    \/ LoopReceive
    \/ LoopStopped
    \/ \E t \in Tasks : BroadcastStep(t)
    \/ \E m \in CallerMsgs : ExtHandleMessage(m)
    \/ \E m \in CallerMsgs : ExtBroadcastToChildren(m)
    \/ \E i \in Indices, m \in CallerMsgs : SendToChild(i, m)
    \/ SendStep
    \/ \E i \in Indices : GetChildChannel(i)

Spec == Init /\ [][Next]_vars

(***************************************************************************)
(* Properties of the Node.                                                 *)
(***************************************************************************)
\* The slots a 0-based index may name.
ValidIndices == 0..(Len(childrenOut) - 1)

\* A task is inside a call of HandleMessage or BroadcastToChildren.
Broadcasting(t) == pc[t] = "broadcast"

\* The last element of a non-empty queue.
Last(q) == q[Len(q)]

\* C1: for every arity a, NewNode(name, a) yields a Node with exactly a child
\* queues, and a call of HandleMessage or BroadcastToChildren whose context is
\* not cancelled is never made to wait: at every slot its select can proceed,
\* whatever the fill level of the queue, and it visits each slot at most once.
C1_ArityAndNoWait ==
    /\ GetNumChildren = numChildren
    /\ \A t \in Tasks :
        Broadcasting(t) =>
            /\ idx[t] \in 1..GetNumChildren
            /\ ~CtxDone(t) => ENABLED BroadcastStep(t)

\* A call with a live context stands at a full queue of a Node of the largest
\* arity.
C1_Witness ==
    /\ numChildren = MaxArity
    /\ Broadcasting(ExtTask)
    /\ ~extDone
    /\ Len(childrenOut[idx[ExtTask]]) = ChanCap

\* C2: in a call with a live context each slot is decided on its own: a queue
\* with room gets the message appended, a full queue is left as it is, no
\* other queue changes in that step, and after a full slot the call goes on to
\* the next slot (or returns nil after the last one).
C2_PerSlotDelivery ==
    [][\A t \in Tasks :
        (Broadcasting(t) /\ ~CtxDone(t) /\ BroadcastStep(t)) =>
            LET i == idx[t]
                q == childrenOut[i]
            IN  /\ childrenOut'[i] =
                       IF Len(q) < ChanCap THEN Append(q, msg[t]) ELSE q
                /\ \A j \in 1..Len(childrenOut) :
                       j # i => childrenOut'[j] = childrenOut[j]
                /\ Len(q) >= ChanCap =>
                       IF i < Len(childrenOut)
                       THEN Broadcasting(t)' /\ idx'[t] = i + 1
                       ELSE pc'[t] = Home(t) /\ ret'[t] = "nil"
      ]_vars

\* A direct broadcast has returned nil having found slot 1 full and slot 2
\* not: the unstamped message is on queue 2 only.
C2_Witness ==
    /\ numChildren = 2
    /\ op[ExtTask] = "BroadcastToChildren"
    /\ pc[ExtTask] = "idle"
    /\ ret[ExtTask] = "nil"
    /\ Len(childrenOut[1]) = ChanCap
    /\ \A k \in 1..ChanCap : childrenOut[1][k].Source = NodeName
    /\ childrenOut[2] # <<>>
    /\ Last(childrenOut[2]).Source = "peer"

\* C3: inside HandleMessage the message being broadcast is the argument with
\* its source rewritten to the Node's name, from before the first enqueue on,
\* and every copy the call puts on a child queue has that source and the
\* argument's content, id and timestamp.
C3_SourceRewritten ==
    /\ [](\A t \in Tasks :
            (Broadcasting(t) /\ op[t] = "HandleMessage") =>
                /\ msg[t].Source = NodeName
                /\ msg[t].Content = arg[t].Content
                /\ msg[t].ID = arg[t].ID
                /\ msg[t].Timestamp = arg[t].Timestamp)
    /\ [][\A t \in Tasks :
            (Broadcasting(t) /\ op[t] = "HandleMessage" /\ BroadcastStep(t)
             /\ Len(childrenOut'[idx[t]]) > Len(childrenOut[idx[t]])) =>
                LET e == Last(childrenOut'[idx[t]])
                IN  /\ e.Source = NodeName
                    /\ e.Content = arg[t].Content
                    /\ e.ID = arg[t].ID
                    /\ e.Timestamp = arg[t].Timestamp
       ]_vars

\* HandleMessage was called with a message of another source and has put its
\* copy, stamped with the Node's name, on queue 1.
C3_Witness ==
    /\ numChildren >= 1
    /\ op[ExtTask] = "HandleMessage"
    /\ Broadcasting(ExtTask)
    /\ idx[ExtTask] = 2
    /\ arg[ExtTask].Source = "peer"
    /\ arg[ExtTask].ID = ""
    /\ childrenOut[1] # <<>>
    /\ Last(childrenOut[1]) = [arg[ExtTask] EXCEPT !.Source = NodeName]

\* C4: a broadcast with a live context starts at slot 1 and, at a slot whose
\* queue has room, appends exactly one copy of the message, with the content
\* it was called with, then moves to the next slot, returning nil after the
\* last: no slot is skipped and none gets the message twice.
C4_OneCopyPerSlot ==
    /\ [](\A t \in Tasks : Broadcasting(t) => idx[t] \in 1..Len(childrenOut))
    /\ [][\A t \in Tasks :
            /\ (~Broadcasting(t) /\ Broadcasting(t)') => idx'[t] = 1
            /\ (Broadcasting(t) /\ ~CtxDone(t) /\ BroadcastStep(t)
                /\ Len(childrenOut[idx[t]]) < ChanCap) =>
                    LET i == idx[t]
                    IN  /\ childrenOut'[i] = Append(childrenOut[i], msg[t])
                        /\ Last(childrenOut'[i]).Content = arg[t].Content
                        /\ IF i < Len(childrenOut)
                           THEN /\ Broadcasting(t)'
                                /\ idx'[t] = i + 1
                                /\ msg'[t] = msg[t]
                           ELSE pc'[t] = Home(t) /\ ret'[t] = "nil"
       ]_vars

\* A broadcast on a Node of the largest arity has returned nil and every
\* queue holds exactly its one copy.
C4_Witness ==
    /\ numChildren = MaxArity
    /\ ops = 1
    /\ op[ExtTask] = "BroadcastToChildren"
    /\ pc[ExtTask] = "idle"
    /\ ret[ExtTask] = "nil"
    /\ \A i \in 1..MaxArity :
        /\ Len(childrenOut[i]) = 1
        /\ childrenOut[i][1].Content = <<"b">>

\* C5: SendToChild and GetChildChannel called with an index outside
\* [0, arity) have returned the index error without entering a select and
\* without handing out a queue, such a call leaves every queue unchanged,
\* and GetChildChannel called with an index inside
\* [0, arity) returns the queue of that slot without error.
C5_IndexErrors ==
    /\ [](/\ (op[ExtTask] = "SendToChild" /\ extIdx \notin ValidIndices) =>
                pc[ExtTask] = "idle" /\ ret[ExtTask] = "indexErr"
          /\ pc[ExtTask] = "send" => idx[ExtTask] \in 1..Len(childrenOut)
          /\ op[ExtTask] = "GetChildChannel" =>
                IF extIdx \in ValidIndices
                THEN ret[ExtTask] = "nil" /\ extChan = extIdx + 1
                ELSE ret[ExtTask] = "indexErr" /\ extChan = 0)
    /\ [][\A i \in Indices :
            (/\ (\E m \in CallerMsgs : SendToChild(i, m)) \/ GetChildChannel(i)
             /\ i \notin ValidIndices) =>
                /\ ret'[ExtTask] = "indexErr"
                /\ UNCHANGED <<inbound, childrenOut>>]_vars

\* SendToChild has returned the index error for the index equal to the arity
\* while a queue of the Node held a message.
C5_Witness ==
    /\ numChildren >= 1
    /\ op[ExtTask] = "SendToChild"
    /\ extIdx = numChildren
    /\ ret[ExtTask] = "indexErr"
    /\ childrenOut[1] # <<>>

\* C6 as claimed: once Stop has been called, no message is taken from the
\* inbound queue any more.
C6_NoReceiveAfterStop ==
    [][nodeDone => Len(inbound') >= Len(inbound)]_vars


(***************************************************************************)
(* The TCP transport in client role, and Close.                            *)
(***************************************************************************)
\* How many bytes the model lets a loop started on a closed outbound queue put
\* on the wire.
MaxStray == 2

\* The attempts connectToChild makes at most.
MaxAttempts == 10

\* strings.HasSuffix(message, "\n")
HasSuffixLF(c) == Len(c) > 0 /\ c[Len(c)] = LF

\* sendMessage: the bytes written for a content, a newline added if absent.
Encode(c) == IF HasSuffixLF(c) THEN c ELSE Append(c, LF)

\* A variant of Connect that starts processOutbound whatever the dial gave.
SpawnsOutboundAlways(ok) == TRUE

\* Connect starts processOutbound only when the dial succeeded.
SpawnsOutbound(ok) == ok

\* processOutbound, case msg := <-t.outbound; a closed queue yields the zero
\* value, any number of times: the model follows it while fewer than MaxStray
\* bytes are on the wire.
OutReceive(t) ==
    /\ ~panicked
    /\ UNCHANGED usrVars
    /\ UNCHANGED srvVars
    /\ outPc[t] = "select"
    /\ \/ /\ Len(tOutbound[t]) > 0
          /\ outMsg' = [outMsg EXCEPT ![t] = Head(tOutbound[t])]
          /\ tOutbound' = [tOutbound EXCEPT ![t] = Tail(@)]
       \/ /\ Len(tOutbound[t]) = 0
          /\ outClosed[t]
          /\ Len(wire[t]) < MaxStray
          /\ outMsg' = [outMsg EXCEPT ![t] = NoMsg]
          /\ tOutbound' = tOutbound
    /\ outPc' = [outPc EXCEPT ![t] = "sendMessage"]
    /\ UNCHANGED <<tInbound, inClosed, outClosed, listener, conn, isServer,
                   isClient, tDone, wg, mu, closePc, wire>>
    /\ UNCHANGED <<nodeVars, asmVars>>

\* processOutbound, case <-t.ctx.Done(): return, and the deferred wg.Done().
OutCancelled(t) ==
    /\ ~panicked
    /\ UNCHANGED usrVars
    /\ UNCHANGED srvVars
    /\ outPc[t] = "select"
    /\ tDone[t]
    /\ outPc' = [outPc EXCEPT ![t] = "stopped"]
    /\ wg' = [wg EXCEPT ![t] = @ - 1]
    /\ UNCHANGED <<tInbound, tOutbound, inClosed, outClosed, listener, conn,
                   isServer, isClient, tDone, mu, outMsg, closePc, wire>>
    /\ UNCHANGED <<nodeVars, asmVars>>

\* sendMessage, the read of t.conn under the read lock: the error for no
\* connection, else on to the write.
OutSendMessage(t) ==
    /\ ~panicked
    /\ UNCHANGED usrVars
    /\ UNCHANGED srvVars
    /\ outPc[t] = "sendMessage"
    /\ mu[t] = "free"
    /\ IF conn[t] = "nil"
       THEN /\ outPc' = [outPc EXCEPT ![t] = "select"]
            /\ outMsg' = [outMsg EXCEPT ![t] = NoMsg]
       ELSE /\ outPc' = [outPc EXCEPT ![t] = "write"]
            /\ outMsg' = outMsg
    /\ UNCHANGED <<tInbound, tOutbound, inClosed, outClosed, listener, conn,
                   isServer, isClient, tDone, wg, mu, closePc, wire>>
    /\ UNCHANGED <<nodeVars, asmVars>>

\* A variant of sendMessage's caller that ends the draining loop when the
\* write fails.
OutWriteStopsOnError(t) ==
    /\ ~panicked
    /\ UNCHANGED usrVars
    /\ UNCHANGED srvVars
    /\ outPc[t] = "write"
    /\ \/ /\ conn[t] = "open"
          /\ wire' = [wire EXCEPT ![t] = @ \o Encode(outMsg[t].Content)]
          /\ outPc' = [outPc EXCEPT ![t] = "select"]
          /\ wg' = wg
       \/ /\ wire' = wire
          /\ outPc' = [outPc EXCEPT ![t] = "stopped"]
          /\ wg' = [wg EXCEPT ![t] = @ - 1]
    /\ outMsg' = [outMsg EXCEPT ![t] = NoMsg]
    /\ UNCHANGED <<tInbound, tOutbound, inClosed, outClosed, listener, conn,
                   isServer, isClient, tDone, mu, closePc>>
    /\ UNCHANGED <<nodeVars, asmVars>>

\* sendMessage, conn.Write: the bytes reach the wire, or the write fails (it
\* does on a closed connection) and the message is given up.
OutWrite(t) ==
    /\ ~panicked
    /\ UNCHANGED usrVars
    /\ UNCHANGED srvVars
    /\ outPc[t] = "write"
    /\ \/ /\ conn[t] = "open"
          /\ wire' = [wire EXCEPT ![t] = @ \o Encode(outMsg[t].Content)]
       \/ wire' = wire
    /\ outPc' = [outPc EXCEPT ![t] = "select"]
    /\ outMsg' = [outMsg EXCEPT ![t] = NoMsg]
    /\ UNCHANGED <<tInbound, tOutbound, inClosed, outClosed, listener, conn,
                   isServer, isClient, tDone, wg, mu, closePc>>
    /\ UNCHANGED <<nodeVars, asmVars>>

\* Close: t.cancel().
CloseCancel(t) ==
    /\ ~panicked
    /\ UNCHANGED usrVars
    /\ UNCHANGED srvVars
    /\ closePc[t] = "called"
    /\ tDone' = [tDone EXCEPT ![t] = TRUE]
    /\ closePc' = [closePc EXCEPT ![t] = "lock"]
    /\ UNCHANGED <<tInbound, tOutbound, inClosed, outClosed, listener, conn,
                   isServer, isClient, wg, mu, outPc, outMsg, wire>>
    /\ UNCHANGED <<nodeVars, asmVars>>

\* Close: t.mu.Lock().
CloseLock(t) ==
    /\ ~panicked
    /\ UNCHANGED usrVars
    /\ UNCHANGED srvVars
    /\ closePc[t] = "lock"
    /\ mu[t] = "free"
    /\ mu' = [mu EXCEPT ![t] = "Close"]
    /\ closePc' = [closePc EXCEPT ![t] = "release"]
    /\ UNCHANGED <<tInbound, tOutbound, inClosed, outClosed, listener, conn,
                   isServer, isClient, tDone, wg, outPc, outMsg, wire>>
    /\ UNCHANGED <<nodeVars, asmVars>>

\* Close: the listener and the connection, when set, are closed.
CloseRelease(t) ==
    /\ ~panicked
    /\ UNCHANGED usrVars
    /\ UNCHANGED srvVars
    /\ closePc[t] = "release"
    /\ listener' = [listener EXCEPT ![t] = IF @ = "nil" THEN @ ELSE "closed"]
    /\ conn' = [conn EXCEPT ![t] = IF @ = "nil" THEN @ ELSE "closed"]
    /\ closePc' = [closePc EXCEPT ![t] = "wait"]
    /\ UNCHANGED <<tInbound, tOutbound, inClosed, outClosed, isServer,
                   isClient, tDone, wg, mu, outPc, outMsg, wire>>
    /\ UNCHANGED <<nodeVars, asmVars>>

\* Close: t.wg.Wait() returns when no loop is counted.
CloseWait(t) ==
    /\ ~panicked
    /\ UNCHANGED usrVars
    /\ UNCHANGED srvVars
    /\ closePc[t] = "wait"
    /\ wg[t] = 0
    /\ closePc' = [closePc EXCEPT ![t] = "closeInbound"]
    /\ UNCHANGED <<tInbound, tOutbound, inClosed, outClosed, listener, conn,
                   isServer, isClient, tDone, wg, mu, outPc, outMsg, wire>>
    /\ UNCHANGED <<nodeVars, asmVars>>

\* Close: close(t.inbound); closing a closed channel panics.
CloseInbound(t) ==
    /\ ~panicked
    /\ UNCHANGED usrVars
    /\ UNCHANGED srvVars
    /\ closePc[t] = "closeInbound"
    /\ IF inClosed[t]
       THEN /\ panicked' = TRUE
            /\ UNCHANGED <<inClosed, closePc>>
       ELSE /\ inClosed' = [inClosed EXCEPT ![t] = TRUE]
            /\ closePc' = [closePc EXCEPT ![t] = "closeOutbound"]
            /\ panicked' = panicked
    /\ UNCHANGED <<tInbound, tOutbound, outClosed, listener, conn, isServer,
                   isClient, tDone, wg, mu, outPc, outMsg, wire>>
    /\ UNCHANGED <<config, asmPc, bnDone, stopPc, stopIdx, connPc, attempt,
                   bridgePc, bridgeMsg>>
    /\ UNCHANGED nodeVars

\* Close: close(t.outbound), the deferred Unlock, return nil.
CloseOutbound(t) ==
    /\ ~panicked
    /\ UNCHANGED usrVars
    /\ UNCHANGED srvVars
    /\ closePc[t] = "closeOutbound"
    /\ IF outClosed[t]
       THEN /\ panicked' = TRUE
            /\ UNCHANGED <<outClosed, closePc, mu>>
       ELSE /\ outClosed' = [outClosed EXCEPT ![t] = TRUE]
            /\ closePc' = [closePc EXCEPT ![t] = "done"]
            /\ mu' = [mu EXCEPT ![t] = "free"]
            /\ panicked' = panicked
    /\ UNCHANGED <<tInbound, tOutbound, inClosed, listener, conn, isServer,
                   isClient, tDone, wg, outPc, outMsg, wire>>
    /\ UNCHANGED <<config, asmPc, bnDone, stopPc, stopIdx, connPc, attempt,
                   bridgePc, bridgeMsg>>
    /\ UNCHANGED nodeVars

(***************************************************************************)
(* The assembly (pkg/factory): Start, Stop, connectToChild,                *)
(* wireChildOutbound.  The Server's side is the part of SpecSrv; here the  *)
(* inbound bridging task is the producer on the Node's inbound queue.      *)
(***************************************************************************)
\* The configurations NewBTreeNode is given: ChildrenPorts.
AsmConfigs == {<<"9001">>}

\* The messages the Server hands to the inbound bridging task.
ServerMsgs == {m \in InputMsgs : m.ID = "id1"}

\* How many messages reach the Node's inbound queue in one behaviour: what
\* fills a child queue, the bridging task and a Client's outbound queue, and
\* one more.
MaxAsmOps == 2 * ChanCap + 2

\* A variant that gives every slot a Client, with or without a port.
HasClientAlways(i) == i \in 1..Len(config)

\* ChildrenClients[i] != nil
HasClient(i) == i \in 1..Len(config) /\ config[i] # ""

\* A variant of the loop condition that allows one attempt more.
RetryAllowedInclusive(i) == i <= MaxAttempts

\* connectToChild's loop condition: i < 10.
RetryAllowed(i) == i < MaxAttempts

\* Start: the Node is started and, for every Client, connectToChild and
\* wireChildOutbound are spawned.
AsmStart ==
    /\ ~panicked
    /\ UNCHANGED usrVars
    /\ UNCHANGED srvVars
    /\ asmPc = "created"
    /\ asmPc' = "started"
    /\ pc' = [pc EXCEPT ![LoopTask] = "select"]
    /\ connPc' = [i \in ClientSlots |-> IF HasClient(i) THEN "loop" ELSE "none"]
    /\ bridgePc' = [i \in ClientSlots |-> IF HasClient(i) THEN "select" ELSE "none"]
    /\ UNCHANGED <<numChildren, inbound, childrenOut, nodeDone, msg, arg, idx,
                   ret, op, extIdx, extChan, extDone, ops>>
    /\ UNCHANGED <<config, bnDone, stopPc, stopIdx, attempt, bridgeMsg,
                   panicked>>
    /\ UNCHANGED tVars

\* wireInbound forwards a message of the Server to the Node's inbound queue.
AsmProduce(m) ==
    /\ ~panicked
    /\ UNCHANGED usrVars
    /\ UNCHANGED srvVars
    /\ asmPc = "started"
    /\ ops < MaxAsmOps
    /\ Len(inbound) < ChanCap
    /\ inbound' = Append(inbound, m)
    /\ ops' = ops + 1
    /\ UNCHANGED <<numChildren, childrenOut, nodeDone, pc, msg, arg, idx, ret,
                   op, extIdx, extChan, extDone>>
    /\ UNCHANGED <<tVars, asmVars>>

\* connectToChild, the head of the iteration with loop variable n: the loop
\* condition, then the select on bn.ctx.Done() with its default; where the task
\* goes.
ConnHead(n) ==
    IF ~RetryAllowed(n) THEN "exhausted"
    ELSE IF bnDone THEN "cancelled"
    ELSE "connect"

\* connectToChild enters its loop: the head of the first iteration and, when
\* it passes, the call of client.Connect.
ConnLoop(i) ==
    /\ ~panicked
    /\ UNCHANGED usrVars
    /\ UNCHANGED srvVars
    /\ connPc[i] = "loop"
    /\ connPc' = [connPc EXCEPT ![i] = ConnHead(attempt[i])]
    /\ UNCHANGED <<config, asmPc, bnDone, stopPc, stopIdx, attempt, bridgePc,
                   bridgeMsg, panicked>>
    /\ UNCHANGED <<nodeVars, tVars>>

\* Connect: t.mu.Lock(), then the error for a transport that is connected.
ConnectLock(i) ==
    /\ ~panicked
    /\ UNCHANGED usrVars
    /\ UNCHANGED srvVars
    /\ connPc[i] = "connect"
    /\ mu[i] = "free"
    /\ IF isClient[i]
       THEN connPc' = [connPc EXCEPT ![i] = "backoff"] /\ mu' = mu
       ELSE /\ connPc' = [connPc EXCEPT ![i] = "dialing"]
            /\ mu' = [mu EXCEPT ![i] = "Connect"]
    /\ UNCHANGED <<tInbound, tOutbound, inClosed, outClosed, listener, conn,
                   isServer, isClient, tDone, wg, outPc, outMsg, closePc, wire>>
    /\ UNCHANGED <<config, asmPc, bnDone, stopPc, stopIdx, attempt, bridgePc, bridgeMsg, panicked>>
    /\ UNCHANGED nodeVars

\* Connect: net.Dial succeeds or fails; on success the connection is kept and
\* processOutbound started; the deferred Unlock; connectToChild returns on
\* success and goes to wait on failure.
ConnectDial(i) ==
    /\ ~panicked
    /\ UNCHANGED usrVars
    /\ UNCHANGED srvVars
    /\ connPc[i] = "dialing"
    /\ \E ok \in BOOLEAN :
        /\ IF ok
           THEN /\ conn' = [conn EXCEPT ![i] = "open"]
                /\ isClient' = [isClient EXCEPT ![i] = TRUE]
                /\ connPc' = [connPc EXCEPT ![i] = "connected"]
                /\ attempt' = [attempt EXCEPT ![i] = 0]
           ELSE /\ UNCHANGED <<conn, isClient, attempt>>
                /\ connPc' = [connPc EXCEPT ![i] = "backoff"]
        /\ IF SpawnsOutbound(ok)
           THEN /\ wg' = [wg EXCEPT ![i] = @ + 1]
                /\ outPc' = [outPc EXCEPT ![i] = "select"]
           ELSE UNCHANGED <<wg, outPc>>
    /\ mu' = [mu EXCEPT ![i] = "free"]
    /\ UNCHANGED <<tInbound, tOutbound, inClosed, outClosed, listener,
                   isServer, tDone, outMsg, closePc, wire>>
    /\ UNCHANGED <<config, asmPc, bnDone, stopPc, stopIdx, bridgePc, bridgeMsg,
                   panicked>>
    /\ UNCHANGED nodeVars

\* connectToChild after a failed Connect: the cancellation is seen and the
\* task returns, or the timer fires, the loop variable is incremented and the
\* head of the next iteration is passed as in ConnLoop.
ConnBackoff(i) ==
    /\ ~panicked
    /\ UNCHANGED usrVars
    /\ UNCHANGED srvVars
    /\ connPc[i] = "backoff"
    /\ \/ /\ connPc' = [connPc EXCEPT ![i] = ConnHead(attempt[i] + 1)]
          /\ attempt' = [attempt EXCEPT ![i] =
                            IF ConnHead(attempt[i] + 1) = "cancelled" THEN 0 ELSE @ + 1]
       \/ /\ bnDone
          /\ connPc' = [connPc EXCEPT ![i] = "cancelled"]
          /\ attempt' = [attempt EXCEPT ![i] = 0]
    /\ UNCHANGED <<config, asmPc, bnDone, stopPc, stopIdx, bridgePc,
                   bridgeMsg, panicked>>
    /\ UNCHANGED <<nodeVars, tVars>>

\* wireChildOutbound, case msg := <-childChannel.
BridgeReceive(i) ==
    /\ ~panicked
    /\ UNCHANGED usrVars
    /\ UNCHANGED srvVars
    /\ bridgePc[i] = "select"
    /\ Len(childrenOut[i]) > 0
    /\ bridgeMsg' = [bridgeMsg EXCEPT ![i] = Head(childrenOut[i])]
    /\ childrenOut' = [childrenOut EXCEPT ![i] = Tail(@)]
    /\ bridgePc' = [bridgePc EXCEPT ![i] = "send"]
    /\ UNCHANGED <<numChildren, inbound, nodeDone, pc, msg, arg, idx, ret, op,
                   extIdx, extChan, extDone, ops>>
    /\ UNCHANGED <<config, asmPc, bnDone, stopPc, stopIdx, connPc, attempt,
                   panicked>>
    /\ UNCHANGED tVars

\* wireChildOutbound, case <-bn.ctx.Done() of either select: return.
BridgeCancelled(i) ==
    /\ ~panicked
    /\ UNCHANGED usrVars
    /\ UNCHANGED srvVars
    /\ bridgePc[i] \in {"select", "send"}
    /\ bnDone
    /\ bridgePc' = [bridgePc EXCEPT ![i] = "done"]
    /\ bridgeMsg' = [bridgeMsg EXCEPT ![i] = NoMsg]
    /\ UNCHANGED <<config, asmPc, bnDone, stopPc, stopIdx, connPc, attempt,
                   panicked>>
    /\ UNCHANGED <<nodeVars, tVars>>

\* wireChildOutbound, case client.GetOutboundChannel() <- msg: it waits for
\* room; a send on a closed channel panics.
BridgeSend(i) ==
    /\ ~panicked
    /\ UNCHANGED usrVars
    /\ UNCHANGED srvVars
    /\ bridgePc[i] = "send"
    /\ IF outClosed[i]
       THEN /\ panicked' = TRUE
            /\ UNCHANGED <<tOutbound, bridgePc, bridgeMsg>>
       ELSE /\ Len(tOutbound[i]) < ChanCap
            /\ tOutbound' = [tOutbound EXCEPT ![i] = Append(@, bridgeMsg[i])]
            /\ bridgePc' = [bridgePc EXCEPT ![i] = "select"]
            /\ bridgeMsg' = [bridgeMsg EXCEPT ![i] = NoMsg]
            /\ panicked' = panicked
    /\ UNCHANGED <<tInbound, inClosed, outClosed, listener, conn, isServer,
                   isClient, tDone, wg, mu, outPc, outMsg, closePc, wire>>
    /\ UNCHANGED <<config, asmPc, bnDone, stopPc, stopIdx, connPc, attempt>>
    /\ UNCHANGED nodeVars

\* Stop: bn.cancel(); bn.ctx is also the context Server.Start was given.
StopCancel ==
    /\ ~panicked
    /\ UNCHANGED usrVars
    /\ asmPc = "started"
    /\ stopPc = "none"
    /\ bnDone' = TRUE
    /\ listenDone' = TRUE
    /\ stopPc' = "node"
    /\ UNCHANGED <<listenPc, acceptPc, connState, rx, peerClosed, rdPc, rdPos,
                   text, scanErr, linesRead, got>>
    /\ UNCHANGED <<config, asmPc, stopIdx, connPc, attempt, bridgePc,
                   bridgeMsg, panicked>>
    /\ UNCHANGED <<nodeVars, tVars>>

\* Stop: bn.Node.Stop().
StopNode ==
    /\ ~panicked
    /\ UNCHANGED usrVars
    /\ UNCHANGED srvVars
    /\ stopPc = "node"
    /\ nodeDone' = TRUE
    /\ stopPc' = "clients"
    /\ stopIdx' = 1
    /\ UNCHANGED <<numChildren, inbound, childrenOut, pc, msg, arg, idx, ret,
                   op, extIdx, extChan, extDone, ops>>
    /\ UNCHANGED <<config, asmPc, bnDone, connPc, attempt, bridgePc,
                   bridgeMsg, panicked>>
    /\ UNCHANGED tVars

\* Stop: the loop over ChildrenClients: a nil Client is passed over, Close is
\* called on the others, one after the other, each call awaited.
StopClients ==
    /\ ~panicked
    /\ UNCHANGED usrVars
    /\ UNCHANGED srvVars
    /\ stopPc = "clients"
    /\ IF stopIdx > Len(config)
       THEN stopPc' = "server" /\ UNCHANGED <<stopIdx, closePc>>
       ELSE IF ~HasClient(stopIdx)
       THEN stopIdx' = stopIdx + 1 /\ UNCHANGED <<stopPc, closePc>>
       ELSE \/ /\ closePc[stopIdx] = "none"
               /\ closePc' = [closePc EXCEPT ![stopIdx] = "called"]
               /\ UNCHANGED <<stopPc, stopIdx>>
            \/ /\ closePc[stopIdx] = "done"
               /\ stopIdx' = stopIdx + 1
               /\ UNCHANGED <<stopPc, closePc>>
    /\ UNCHANGED <<tInbound, tOutbound, inClosed, outClosed, listener, conn,
                   isServer, isClient, tDone, wg, mu, outPc, outMsg, wire>>
    /\ UNCHANGED <<config, asmPc, bnDone, connPc, attempt, bridgePc,
                   bridgeMsg, panicked>>
    /\ UNCHANGED nodeVars

\* Stop: bn.Server.Close() is called and awaited, then return nil.
StopServer ==
    /\ ~panicked
    /\ UNCHANGED usrVars
    /\ UNCHANGED srvVars
    /\ stopPc = "server"
    /\ \/ /\ closePc[ServerT] = "none"
          /\ closePc' = [closePc EXCEPT ![ServerT] = "called"]
          /\ stopPc' = stopPc
       \/ /\ closePc[ServerT] = "done"
          /\ stopPc' = "done"
          /\ closePc' = closePc
    /\ UNCHANGED <<tInbound, tOutbound, inClosed, outClosed, listener, conn,
                   isServer, isClient, tDone, wg, mu, outPc, outMsg, wire>>
    /\ UNCHANGED <<config, asmPc, bnDone, stopIdx, connPc, attempt, bridgePc,
                   bridgeMsg, panicked>>
    /\ UNCHANGED nodeVars

InitAsm ==
    /\ \E c \in AsmConfigs : InitNode(Len(c)) /\ InitAssembly(c, "created")
    /\ InitTransports
    /\ InitServer
    /\ InitUsers

NextAsm ==
    \/ AsmStart
    \/ \E m \in ServerMsgs : AsmProduce(m)
    \/ LoopReceive
    \/ LoopStopped
    \/ BroadcastStep(LoopTask)
    \/ \E i \in ClientSlots : ConnLoop(i)
    \/ \E i \in ClientSlots : ConnectLock(i)
    \/ \E i \in ClientSlots : ConnectDial(i)
    \/ \E i \in ClientSlots : ConnBackoff(i)
    \/ \E i \in ClientSlots : BridgeReceive(i)
    \/ \E i \in ClientSlots : BridgeCancelled(i)
    \/ \E i \in ClientSlots : BridgeSend(i)
    \/ \E i \in ClientSlots : OutReceive(i)
    \/ \E i \in ClientSlots : OutCancelled(i)
    \/ \E i \in ClientSlots : OutSendMessage(i)
    \/ \E i \in ClientSlots : OutWrite(i)
    \/ StopCancel
    \/ StopNode
    \/ StopClients
    \/ StopServer
    \/ \E t \in TIds : CloseCancel(t)
    \/ \E t \in TIds : CloseLock(t)
    \/ \E t \in TIds : CloseRelease(t)
    \/ \E t \in TIds : CloseWait(t)
    \/ \E t \in TIds : CloseInbound(t)
    \/ \E t \in TIds : CloseOutbound(t)

SpecAsm == InitAsm /\ [][NextAsm]_vars

(***************************************************************************)
(* Properties of the assembly's connection establishment.                  *)
(***************************************************************************)
\* connectToChild of slot i has left its loop after the last failure.
Exhausted(i) == connPc[i] = "exhausted"

\* The calls of client.Connect the running connectToChild of slot i has made:
\* one per iteration begun, the current one included once it has passed the
\* head of the loop.
Dials(i) ==
    attempt[i] + (IF connPc[i] \in {"connect", "dialing", "backoff"} THEN 1 ELSE 0)

\* connectToChild of slot i has returned.
ConnReturned(i) == connPc[i] \in {"connected", "cancelled", "exhausted"}

\* The message loop's broadcast returns in this step.
LoopBroadcastReturns == pc[LoopTask] = "broadcast" /\ pc'[LoopTask] # "broadcast"

\* a is an initial part of b.
IsPrefix(a, b) == Len(a) <= Len(b) /\ SubSeq(b, 1, Len(a)) = a

\* At most MaxAttempts calls of Connect; after the last failure no connection,
\* no sending loop and nothing on the wire; and a broadcast of a running Node
\* that is at the slot does not wait.
C7Budget ==
    \A i \in ClientSlots :
        /\ Dials(i) <= MaxAttempts
        /\ Exhausted(i) =>
            /\ Dials(i) = MaxAttempts
            /\ conn[i] = "nil"
            /\ ~isClient[i]
            /\ outPc[i] = "none"
            /\ wire[i] = <<>>
        /\ (Exhausted(i) /\ ~nodeDone /\ Broadcasting(LoopTask)
                /\ idx[LoopTask] = i)
            => ENABLED BroadcastStep(LoopTask)

\* No call of Connect after the task has returned or with the cancellation
\* seen at the head of the loop, the task stays returned,
\* and the step that gives up changes nothing of the assembly's or the Node's
\* run state.
C7Steps ==
    \A i \in ClientSlots :
        /\ ConnReturned(i) => connPc'[i] = connPc[i] /\ attempt'[i] = attempt[i]
        /\ (connPc[i] # "connect" /\ connPc'[i] = "connect")
            => connPc[i] \in {"loop", "backoff"} /\ ~bnDone
        /\ (~Exhausted(i) /\ connPc'[i] = "exhausted")
            => UNCHANGED <<panicked, asmPc, bnDone, nodeDone, pc, bridgePc>>

\* C7 (as amended): for each configured child, connectToChild calls Connect
\* at most 10 times, never again after a success, an observed cancellation or
\* the 10th failure, and after the 10th failure it returns without stopping or
\* crashing the assembly; from then on no connection exists, nothing is ever
\* written towards the peer, and every broadcast made while the Node is not
\* stopped passes the slot without waiting and returns nil.
C7_RetryBudget ==
    /\ []C7Budget
    /\ [][C7Steps]_vars
    /\ [][(\E i \in ClientSlots : Exhausted(i)) /\ ~nodeDone
            /\ LoopBroadcastReturns
          => ret'[LoopTask] = "nil"]_vars

\* C7 witness: the budget is used up, the Node is running, and a broadcast
\* made since has returned nil with its copy kept and nothing on the wire.
C7_Witness ==
    /\ Exhausted(1)
    /\ Dials(1) = MaxAttempts
    /\ ~nodeDone
    /\ ops = MaxAsmOps
    /\ ret[LoopTask] = "nil"
    /\ pc[LoopTask] = "select"
    /\ wire[1] = <<>>

\* C7 as stated: as above, but every broadcast after the 10th failure returns
\* without error, whether the Node has been stopped or not.
C7_Original ==
    /\ []C7Budget
    /\ [][C7Steps]_vars
    /\ [][(\E i \in ClientSlots : Exhausted(i)) /\ LoopBroadcastReturns
          => ret'[LoopTask] = "nil"]_vars

\* The child queue, the bridging task and the Client's outbound queue of slot
\* i hold all they can hold, or the bridging task has returned with the child
\* queue full.
Saturated(i) ==
    /\ Len(childrenOut[i]) = ChanCap
    /\ \/ bridgePc[i] = "done"
       \/ bridgePc[i] = "send" /\ Len(tOutbound[i]) = ChanCap

\* C8 as stated: once the retry budget of a child's Client is used up, no
\* message broadcast to the slot is accepted into its queue.
C8_Original ==
    [][\A i \in ClientSlots :
        Exhausted(i) => Len(childrenOut'[i]) <= Len(childrenOut[i])]_vars

\* C8 (as amended): once the retry budget of a child's Client is used up, the
\* messages broadcast to the slot are still accepted while there is room: the
\* bridging task moves them to the Client's outbound queue, which nothing
\* drains, so what was accepted stays queued and nothing reaches the wire; once
\* the outbound queue, the bridging task and the child queue are full they
\* stay full, and from then on every message broadcast to the slot is dropped.
C8_ExhaustedSlotFillsThenDrops ==
    /\ [](\A i \in ClientSlots :
            Exhausted(i) => outPc[i] = "none" /\ wire[i] = <<>>)
    /\ [][\A i \in ClientSlots :
            Exhausted(i) =>
                /\ IsPrefix(tOutbound[i], tOutbound'[i])
                /\ Saturated(i) => Saturated(i)' /\ childrenOut'[i] = childrenOut[i]
                /\ (Broadcasting(LoopTask) /\ idx[LoopTask] = i
                        /\ Len(childrenOut[i]) < ChanCap /\ ~nodeDone
                        /\ pc'[LoopTask] # pc[LoopTask])
                    => childrenOut'[i] = Append(childrenOut[i], msg[LoopTask])]_vars

\* C8 witness: after the last failure MaxAsmOps messages have been broadcast,
\* all but one are held between the child queue and the outbound queue, and
\* the slot is full.
C8_Witness ==
    /\ Exhausted(1)
    /\ Saturated(1)
    /\ bridgePc[1] = "send"
    /\ ops = MaxAsmOps
    /\ inbound = <<>>
    /\ pc[LoopTask] = "select"
    /\ wire[1] = <<>>
(***************************************************************************)
(* The TCP transport in server role.                                       *)
(***************************************************************************)
\* How many bytes the peer writes on its connection in one behaviour.
MaxBytes == 4

\* The largest buffer of the line scanner.  bufio.Scanner's is 64 KiB
\* (bufio.MaxScanTokenSize); the model scales it down.
MaxToken == 3

\* The bytes the peer writes.
Bytes == {"a", CR, LF}

\* bytes.IndexByte(data, '\n') + 1: the place of the first newline, 0 when
\* there is none.
LFIndex(data) ==
    IF \E k \in 1..Len(data) : data[k] = LF
    THEN CHOOSE k \in 1..Len(data) :
            data[k] = LF /\ \A j \in 1..(k - 1) : data[j] # LF
    ELSE 0

\* A variant of dropCR that keeps a trailing carriage return.
DropCRNever(data) == data

\* bufio's dropCR: one trailing carriage return is dropped.
DropCR(data) ==
    IF Len(data) > 0 /\ data[Len(data)] = CR
    THEN SubSeq(data, 1, Len(data) - 1)
    ELSE data

\* bufio.ScanLines(data, atEOF): the bytes to advance by and the token, or no
\* token (more data is asked for, or the input has ended).
ScanLines(data, atEOF) ==
    IF atEOF /\ Len(data) = 0
    THEN [found |-> FALSE, advance |-> 0, token |-> <<>>]
    ELSE IF LFIndex(data) > 0
    THEN [found |-> TRUE, advance |-> LFIndex(data),
          token |-> DropCR(SubSeq(data, 1, LFIndex(data) - 1))]
    ELSE IF atEOF
    THEN [found |-> TRUE, advance |-> Len(data), token |-> DropCR(data)]
    ELSE [found |-> FALSE, advance |-> 0, token |-> <<>>]

\* The bytes that have arrived and the scanner has not consumed.
Unread == SubSeq(rx, rdPos + 1, Len(rx))

\* What the scanner's buffer can hold of them.
ScanBuf == SubSeq(Unread, 1, IF Len(Unread) < MaxToken THEN Len(Unread) ELSE MaxToken)

\* The scanner has read the end of the input: the peer has closed and all it
\* wrote is in the buffer, which is not full.
AtEOF == peerClosed /\ Len(Unread) < MaxToken

\* A variant of the test on the line that lets every line through.
KeepsLineAlways(line) == TRUE

\* handleConnection's test on the line: text != "".
KeepsLine(line) == line # <<>>

\* The Message handleConnection builds of a line.
LineMessage(line) == [NoMsg EXCEPT !.Content = line, !.ID = ""]

\* Listen(ctx, address) on the Server's transport, under the lock: the listener
\* is opened and the accept loop and processOutbound are started, or net.Listen
\* fails.
SrvListen ==
    /\ ~panicked
    /\ UNCHANGED usrVars
    /\ listenPc = "none"
    /\ mu[ServerT] = "free"
    /\ ~isServer[ServerT]
    /\ \E ok \in BOOLEAN :
        IF ok
        THEN /\ listenPc' = "ok"
             /\ listener' = [listener EXCEPT ![ServerT] = "open"]
             /\ isServer' = [isServer EXCEPT ![ServerT] = TRUE]
             /\ wg' = [wg EXCEPT ![ServerT] = @ + 2]
             /\ acceptPc' = "select"
             /\ outPc' = [outPc EXCEPT ![ServerT] = "select"]
        ELSE /\ listenPc' = "failed"
             /\ UNCHANGED <<listener, isServer, wg, acceptPc, outPc>>
    /\ UNCHANGED <<tInbound, tOutbound, inClosed, outClosed, conn, isClient,
                   tDone, mu, outMsg, closePc, wire>>
    /\ UNCHANGED <<listenDone, connState, rx, peerClosed, rdPc, rdPos, text,
                   scanErr, linesRead, got>>
    /\ UNCHANGED <<nodeVars, asmVars>>

\* The owner of the context Listen was given cancels it.
ListenCtxCancel ==
    /\ ~panicked
    /\ UNCHANGED usrVars
    /\ listenPc # "none"
    /\ ~listenDone
    /\ listenDone' = TRUE
    /\ UNCHANGED <<listenPc, acceptPc, connState, rx, peerClosed, rdPc, rdPos,
                   text, scanErr, linesRead, got>>
    /\ UNCHANGED <<nodeVars, tVars, asmVars>>

\* Close is called on transport t.
CloseCall(t) ==
    /\ ~panicked
    /\ UNCHANGED usrVars
    /\ closePc[t] = "none"
    /\ closePc' = [closePc EXCEPT ![t] = "called"]
    /\ UNCHANGED <<tInbound, tOutbound, inClosed, outClosed, listener, conn,
                   isServer, isClient, tDone, wg, mu, outPc, outMsg, wire>>
    /\ UNCHANGED <<nodeVars, asmVars, srvVars>>

\* A variant of the accept loop that also returns once a reader loop has
\* ended.
AcceptSelectOnce ==
    /\ ~panicked
    /\ UNCHANGED usrVars
    /\ acceptPc = "select"
    /\ IF listenDone \/ rdPc = "done" \/ conn2.rdPc = "done"
       THEN /\ acceptPc' = "stopped"
            /\ wg' = [wg EXCEPT ![ServerT] = @ - 1]
       ELSE /\ acceptPc' = "accept"
            /\ wg' = wg
    /\ UNCHANGED <<tInbound, tOutbound, inClosed, outClosed, listener, conn,
                   isServer, isClient, tDone, mu, outPc, outMsg, closePc, wire>>
    /\ UNCHANGED <<listenPc, listenDone, connState, rx, peerClosed, rdPc,
                   rdPos, text, scanErr, linesRead, got>>
    /\ UNCHANGED <<nodeVars, asmVars>>

\* acceptConnections, the select at the head of the loop: return when the
\* context of Listen is cancelled, else go to Accept.
AcceptSelect ==
    /\ ~panicked
    /\ UNCHANGED usrVars
    /\ acceptPc = "select"
    /\ IF listenDone
       THEN /\ acceptPc' = "stopped"
            /\ wg' = [wg EXCEPT ![ServerT] = @ - 1]
       ELSE /\ acceptPc' = "accept"
            /\ wg' = wg
    /\ UNCHANGED <<tInbound, tOutbound, inClosed, outClosed, listener, conn,
                   isServer, isClient, tDone, mu, outPc, outMsg, closePc, wire>>
    /\ UNCHANGED <<listenPc, listenDone, connState, rx, peerClosed, rdPc,
                   rdPos, text, scanErr, linesRead, got>>
    /\ UNCHANGED <<nodeVars, asmVars>>

\* acceptConnections, t.listener.Accept() returns a connection:
\* handleConnection is started on it.
AcceptConn ==
    /\ ~panicked
    /\ UNCHANGED usrVars
    /\ acceptPc = "accept"
    /\ listener[ServerT] = "open"
    /\ connState = "pending"
    /\ connState' = "accepted"
    /\ rdPc' = "scan"
    /\ wg' = [wg EXCEPT ![ServerT] = @ + 1]
    /\ acceptPc' = "select"
    /\ UNCHANGED <<tInbound, tOutbound, inClosed, outClosed, listener, conn,
                   isServer, isClient, tDone, mu, outPc, outMsg, closePc, wire>>
    /\ UNCHANGED <<listenPc, listenDone, rx, peerClosed, rdPos, text, scanErr,
                   linesRead, got>>
    /\ UNCHANGED <<nodeVars, asmVars>>

\* acceptConnections, Accept fails on the closed listener: return when the
\* context of Listen is cancelled, else log and go round again.
AcceptError ==
    /\ ~panicked
    /\ UNCHANGED usrVars
    /\ acceptPc = "accept"
    /\ listener[ServerT] = "closed"
    /\ IF listenDone
       THEN /\ acceptPc' = "stopped"
            /\ wg' = [wg EXCEPT ![ServerT] = @ - 1]
       ELSE /\ acceptPc' = "select"
            /\ wg' = wg
    /\ UNCHANGED <<tInbound, tOutbound, inClosed, outClosed, listener, conn,
                   isServer, isClient, tDone, mu, outPc, outMsg, closePc, wire>>
    /\ UNCHANGED <<listenPc, listenDone, connState, rx, peerClosed, rdPc,
                   rdPos, text, scanErr, linesRead, got>>
    /\ UNCHANGED <<nodeVars, asmVars>>

\* The peer connects to the listening Server.
PeerConnect ==
    /\ ~panicked
    /\ UNCHANGED usrVars
    /\ listener[ServerT] = "open"
    /\ connState = "none"
    /\ connState' = "pending"
    /\ UNCHANGED <<listenPc, listenDone, acceptPc, rx, peerClosed, rdPc, rdPos,
                   text, scanErr, linesRead, got>>
    /\ UNCHANGED <<nodeVars, tVars, asmVars>>

\* The peer writes one byte on its connection.
PeerWrite(b) ==
    /\ ~panicked
    /\ UNCHANGED usrVars
    /\ connState \in {"pending", "accepted"}
    /\ ~peerClosed
    /\ Len(rx) < MaxBytes
    /\ rx' = Append(rx, b)
    /\ UNCHANGED <<listenPc, listenDone, acceptPc, connState, peerClosed, rdPc,
                   rdPos, text, scanErr, linesRead, got>>
    /\ UNCHANGED <<nodeVars, tVars, asmVars>>

\* The peer closes its end of the connection.
PeerClose ==
    /\ ~panicked
    /\ UNCHANGED usrVars
    /\ connState \in {"pending", "accepted"}
    /\ ~peerClosed
    /\ peerClosed' = TRUE
    /\ UNCHANGED <<listenPc, listenDone, acceptPc, connState, rx, rdPc, rdPos,
                   text, scanErr, linesRead, got>>
    /\ UNCHANGED <<nodeVars, tVars, asmVars>>

\* handleConnection returns: the deferred conn.Close() and wg.Done().
RdReturn ==
    /\ rdPc' = "done"
    /\ text' = <<>>
    /\ connState' = "closed"
    /\ wg' = [wg EXCEPT ![ServerT] = @ - 1]

\* handleConnection, scanner.Scan(): the next token, or false at the end of
\* the input or when the buffer is full and holds no line (ErrTooLong); it
\* waits while neither is the case.
RdScan ==
    /\ ~panicked
    /\ UNCHANGED usrVars
    /\ rdPc = "scan"
    /\ IF ScanLines(ScanBuf, AtEOF).found
       THEN /\ text' = ScanLines(ScanBuf, AtEOF).token
            /\ rdPos' = rdPos + ScanLines(ScanBuf, AtEOF).advance
            /\ linesRead' = Append(linesRead, ScanLines(ScanBuf, AtEOF).token)
            /\ rdPc' = "select"
            /\ UNCHANGED <<scanErr, connState, wg>>
       ELSE IF Len(ScanBuf) = MaxToken
       THEN /\ scanErr' = "ErrTooLong"
            /\ RdReturn
            /\ UNCHANGED <<rdPos, linesRead>>
       ELSE /\ AtEOF
            /\ RdReturn
            /\ UNCHANGED <<scanErr, rdPos, linesRead>>
    /\ UNCHANGED <<tInbound, tOutbound, inClosed, outClosed, listener, conn,
                   isServer, isClient, tDone, mu, outPc, outMsg, closePc, wire>>
    /\ UNCHANGED <<listenPc, listenDone, acceptPc, rx, peerClosed, got>>
    /\ UNCHANGED <<nodeVars, asmVars>>

\* handleConnection, the select on t.ctx.Done() with its default, then the
\* test on the line: return, or go to send the line, or go to the next line.
RdSelect ==
    /\ ~panicked
    /\ UNCHANGED usrVars
    /\ rdPc = "select"
    /\ IF tDone[ServerT]
       THEN RdReturn
       ELSE /\ rdPc' = IF KeepsLine(text) THEN "send" ELSE "scan"
            /\ text' = IF KeepsLine(text) THEN text ELSE <<>>
            /\ UNCHANGED <<connState, wg>>
    /\ UNCHANGED <<tInbound, tOutbound, inClosed, outClosed, listener, conn,
                   isServer, isClient, tDone, mu, outPc, outMsg, closePc, wire>>
    /\ UNCHANGED <<listenPc, listenDone, acceptPc, rx, peerClosed, rdPos,
                   scanErr, linesRead, got>>
    /\ UNCHANGED <<nodeVars, asmVars>>

\* handleConnection, the select that sends the Message: the send when t.inbound
\* has room, the return when t.ctx is cancelled; a send on a closed channel
\* panics.
RdSend ==
    /\ rdPc = "send"
    /\ ~panicked
    /\ UNCHANGED usrVars
    /\ \/ /\ inClosed[ServerT]
          /\ panicked' = TRUE
          /\ UNCHANGED <<tInbound, rdPc, text, connState, wg>>
       \/ /\ ~inClosed[ServerT]
          /\ Len(tInbound[ServerT]) < ChanCap
          /\ tInbound' = [tInbound EXCEPT ![ServerT] = Append(@, LineMessage(text))]
          /\ rdPc' = "scan"
          /\ text' = <<>>
          /\ UNCHANGED <<connState, wg, panicked>>
       \/ /\ tDone[ServerT]
          /\ RdReturn
          /\ UNCHANGED <<tInbound, panicked>>
    /\ UNCHANGED <<tOutbound, inClosed, outClosed, listener, conn, isServer,
                   isClient, tDone, mu, outPc, outMsg, closePc, wire>>
    /\ UNCHANGED <<listenPc, listenDone, acceptPc, rx, peerClosed, rdPos,
                   scanErr, linesRead, got>>
    /\ UNCHANGED <<config, asmPc, bnDone, stopPc, stopIdx, connPc, attempt,
                   bridgePc, bridgeMsg>>
    /\ UNCHANGED nodeVars

\* The consumer takes a message from GetInboundChannel().
Consume ==
    /\ ~panicked
    /\ UNCHANGED usrVars
    /\ Len(tInbound[ServerT]) > 0
    /\ got' = Append(got, Head(tInbound[ServerT]))
    /\ tInbound' = [tInbound EXCEPT ![ServerT] = Tail(@)]
    /\ UNCHANGED <<tOutbound, inClosed, outClosed, listener, conn, isServer,
                   isClient, tDone, wg, mu, outPc, outMsg, closePc, wire>>
    /\ UNCHANGED <<listenPc, listenDone, acceptPc, connState, rx, peerClosed,
                   rdPc, rdPos, text, scanErr, linesRead>>
    /\ UNCHANGED <<nodeVars, asmVars>>

InitSrv ==
    /\ InitNode(0)
    /\ InitTransports
    /\ InitAssembly(<<>>, "none")
    /\ InitServer
    /\ InitUsers

NextSrv ==
    \/ SrvListen
    \/ ListenCtxCancel
    \/ AcceptSelect
    \/ AcceptConn
    \/ AcceptError
    \/ PeerConnect
    \/ \E b \in Bytes : PeerWrite(b)
    \/ PeerClose
    \/ RdScan
    \/ RdSelect
    \/ RdSend
    \/ Consume
    \/ OutCancelled(ServerT)
    \/ CloseCall(ServerT)
    \/ CloseCancel(ServerT)
    \/ CloseLock(ServerT)
    \/ CloseRelease(ServerT)
    \/ CloseWait(ServerT)
    \/ CloseInbound(ServerT)
    \/ CloseOutbound(ServerT)

SpecSrv == InitSrv /\ [][NextSrv]_vars
(***************************************************************************)
(* Properties of the server role.                                          *)
(***************************************************************************)
\* The contents of a sequence of messages.
Contents(q) == [k \in 1..Len(q) |-> q[k].Content]

\* The messages put on the Server's inbound queue so far, in order: those the
\* consumer has taken and those still queued.
Delivered == got \o tInbound[ServerT]

\* The lines of ls that are not empty.
NonEmptyLines(ls) == SelectSeq(ls, LAMBDA l : l # <<>>)

\* ls without its last element.
Front(ls) == SubSeq(ls, 1, Len(ls) - 1)

\* The newline-terminated lines of a byte stream, each without its newline.
RECURSIVE SplitLF(_)
SplitLF(bs) ==
    IF LFIndex(bs) = 0
    THEN <<>>
    ELSE <<SubSeq(bs, 1, LFIndex(bs) - 1)>>
            \o SplitLF(SubSeq(bs, LFIndex(bs) + 1, Len(bs)))

\* A line without the carriage return it may end with.
StripCR(l) == IF l # <<>> /\ Last(l) = CR THEN Front(l) ELSE l

\* Every line of ls without the carriage return it may end with.
StripAllCR(ls) == [k \in 1..Len(ls) |-> StripCR(ls[k])]

\* The transport is open, everything the peer wrote is in newline-terminated
\* lines, and the reader has dealt with the stream: it waits for more with all
\* bytes consumed, or it has returned.
LinesHandled ==
    /\ ~tDone[ServerT]
    /\ connState \in {"accepted", "closed"}
    /\ rx # <<>>
    /\ Last(rx) = LF
    /\ \/ rdPc = "scan" /\ rdPos = Len(rx)
       \/ rdPc = "done"

\* Every message put on the inbound queue has empty id and source and a zero
\* timestamp.
OnlyContentCrosses ==
    \A k \in 1..Len(Delivered) :
        /\ Delivered[k].ID = ""
        /\ Delivered[k].Source = ""
        /\ Delivered[k].Timestamp = 0

\* C9 as stated: each non-empty newline-terminated line received puts exactly
\* one Message on the inbound queue, its content the line without the
\* delimiter, its id and source empty and its timestamp zero.
C9_Original ==
    /\ OnlyContentCrosses
    /\ LinesHandled => Contents(Delivered) = NonEmptyLines(SplitLF(rx))

\* C9 (as amended): on an open transport, each newline-terminated line that
\* fits the scanner's buffer together with its newline and is not empty once
\* a carriage return before the newline is removed puts exactly one Message on
\* the inbound queue, its content the line without the newline and without
\* that carriage return, its id and source empty and its timestamp zero; a line
\* that is empty once the carriage return is removed puts none.
C9_LineBecomesMessage ==
    /\ OnlyContentCrosses
    /\ (LinesHandled /\ \A k \in 1..Len(SplitLF(rx)) : Len(SplitLF(rx)[k]) < MaxToken)
        => Contents(Delivered) = NonEmptyLines(StripAllCR(SplitLF(rx)))

\* C9 witness: the peer wrote "a", a carriage return and a newline; the reader
\* has consumed them and one Message of content "a" is on the inbound queue.
C9_Witness ==
    /\ LinesHandled
    /\ rx = <<"a", CR, LF>>
    /\ rdPc = "scan"
    /\ tInbound[ServerT] = <<LineMessage(<<"a">>)>>
    /\ got = <<>>

\* The reader holds no line: it is between two lines or has returned.
BetweenLines == rdPc \in {"scan", "done"}

\* C10 as stated: on an open transport the Messages put on the inbound queue
\* are as many as the lines read from the connection, empty lines included,
\* in the same order.
C10_Original ==
    (~tDone[ServerT] /\ BetweenLines) => Contents(Delivered) = linesRead

\* C10 (as amended): on an open transport the Messages put on the inbound
\* queue are the non-empty lines read from the connection, one Message per
\* line and in the same order; an empty line is read and puts no Message.
C10_NonEmptyLinesInOrder ==
    /\ IsPrefix(Contents(Delivered), NonEmptyLines(linesRead))
    /\ (~tDone[ServerT] /\ BetweenLines)
        => Contents(Delivered) = NonEmptyLines(linesRead)
    /\ (~tDone[ServerT] /\ ~BetweenLines /\ rdPc # "none")
        => Contents(Delivered) = NonEmptyLines(Front(linesRead))

\* C10 witness: the lines "a", "" and "a" have been read on an open transport
\* and two Messages of content "a" have been put on the inbound queue.
C10_Witness ==
    /\ ~tDone[ServerT]
    /\ BetweenLines
    /\ linesRead = << <<"a">>, <<>>, <<"a">> >>
    /\ Contents(Delivered) = << <<"a">>, <<"a">> >>

(***************************************************************************)
(* The Node fed with numbered messages, its child queues read by readers   *)
(* that keep what they read (TestMultipleMessages).                        *)
(***************************************************************************)
\* How many messages the producer sends in one behaviour: enough to fill a
\* child queue, lose a message and have a later one accepted.
MaxOrdOps == ChanCap + 2

\* The n-th message the producer sends.
OrdMsg(n) == [Content |-> <<"a">>, ID |-> "", Timestamp |-> n, Source |-> "peer"]

\* The producer sends its next message on the inbound queue.
OrdProduce ==
    /\ ~panicked
    /\ ops < MaxOrdOps
    /\ Len(inbound) < ChanCap
    /\ inbound' = Append(inbound, OrdMsg(ops + 1))
    /\ ops' = ops + 1
    /\ UNCHANGED <<numChildren, childrenOut, nodeDone, pc, msg, arg, idx, ret,
                   op, extIdx, extChan, extDone>>
    /\ UNCHANGED <<tVars, asmVars, srvVars, usrVars>>

\* The reader of slot i takes the next message of the slot's queue and keeps
\* it.
OrdReadChild(i) ==
    /\ ~panicked
    /\ i \in 1..Len(childrenOut)
    /\ Len(childrenOut[i]) > 0
    /\ received' = [received EXCEPT ![i] = Append(@, Head(childrenOut[i]))]
    /\ childrenOut' = [childrenOut EXCEPT ![i] = Tail(@)]
    /\ UNCHANGED <<out2Pc, out2Msg, tRet, conn2, tree, loop2, sent, inb>>
    /\ UNCHANGED <<numChildren, inbound, nodeDone, pc, msg, arg, idx, ret, op,
                   extIdx, extChan, extDone, ops>>
    /\ UNCHANGED <<tVars, asmVars, srvVars>>

NextOrd ==
    \/ Start
    \/ Stop
    \/ OrdProduce
    \/ LoopReceive
    \/ LoopStopped
    \/ BroadcastStep(LoopTask)
    \/ \E i \in 1..MaxArity : OrdReadChild(i)

SpecOrd == Init /\ [][NextOrd]_vars

\* The messages that have entered the inbound queue, in order, each as the
\* Node forwards it.
Arrived == [n \in 1..ops |-> Stamp(OrdMsg(n))]

\* The messages enqueued on slot i so far, in order: those its reader has
\* taken and those still queued.
Enqueued(i) == received[i] \o childrenOut[i]

\* s can be got from t by leaving elements out.
RECURSIVE IsSubseq(_, _)
IsSubseq(s, t) ==
    IF s = <<>> THEN TRUE
    ELSE IF t = <<>> THEN FALSE
    ELSE IF Head(s) = Head(t) THEN IsSubseq(Tail(s), Tail(t))
    ELSE IsSubseq(s, Tail(t))

\* C20: within one Node started once, for every child slot the sequence of
\* messages enqueued on the slot's queue is an order-preserving subsequence of
\* the sequence of messages that entered the inbound queue.
C20_ArrivalOrder ==
    \A i \in 1..Len(childrenOut) : IsSubseq(Enqueued(i), Arrived)

\* C20 witness: a slot has been given the first two messages, lost the third
\* while full and been given the fourth.
C20_Witness ==
    /\ Len(childrenOut) >= 1
    /\ [k \in 1..Len(Enqueued(1)) |-> Enqueued(1)[k].Timestamp] = <<1, 2, 4>>

(***************************************************************************)
(* One TCPTransport and its callers: Listen, Connect and Close called in   *)
(* any order and any number of times, with the loops they start.  No       *)
(* message is put on the outbound queue here.                              *)
(***************************************************************************)
\* Listen(ctx, address), under t.mu: the error when isServer is set, the
\* error of net.Listen, else the listener is kept, isServer is set and
\* acceptConnections and processOutbound are started.
TListen ==
    /\ ~panicked
    /\ mu[ServerT] = "free"
    /\ IF isServer[ServerT]
       THEN /\ tRet' = [call |-> "Listen", err |-> "already listening"]
            /\ UNCHANGED <<listenPc, listener, isServer, wg, acceptPc, outPc>>
       ELSE \E ok \in BOOLEAN :
            IF ok
            THEN /\ tRet' = [call |-> "Listen", err |-> "nil"]
                 /\ listenPc' = "ok"
                 /\ listener' = [listener EXCEPT ![ServerT] = "open"]
                 /\ isServer' = [isServer EXCEPT ![ServerT] = TRUE]
                 /\ wg' = [wg EXCEPT ![ServerT] = @ + 2]
                 /\ acceptPc' = "select"
                 /\ outPc' = [outPc EXCEPT ![ServerT] = "select"]
            ELSE /\ tRet' = [call |-> "Listen", err |-> "failed to listen"]
                 /\ listenPc' = "failed"
                 /\ UNCHANGED <<listener, isServer, wg, acceptPc, outPc>>
    /\ UNCHANGED <<received, out2Pc, out2Msg, conn2, tree, loop2, sent, inb>>
    /\ UNCHANGED <<tInbound, tOutbound, inClosed, outClosed, conn, isClient,
                   tDone, mu, outMsg, closePc, wire>>
    /\ UNCHANGED <<listenDone, connState, rx, peerClosed, rdPc, rdPos, text,
                   scanErr, linesRead, got>>
    /\ UNCHANGED <<nodeVars, asmVars>>

\* Connect(ctx, address), under t.mu: the error when isClient is set, the
\* error of net.Dial, else the connection is kept, isClient is set and
\* processOutbound is started.
TConnect ==
    /\ ~panicked
    /\ mu[ServerT] = "free"
    /\ IF isClient[ServerT]
       THEN /\ tRet' = [call |-> "Connect", err |-> "already connected"]
            /\ UNCHANGED <<conn, isClient, wg, out2Pc>>
       ELSE \E ok \in BOOLEAN :
            IF ok
            THEN /\ tRet' = [call |-> "Connect", err |-> "nil"]
                 /\ conn' = [conn EXCEPT ![ServerT] = "open"]
                 /\ isClient' = [isClient EXCEPT ![ServerT] = TRUE]
                 /\ wg' = [wg EXCEPT ![ServerT] = @ + 1]
                 /\ out2Pc' = "select"
            ELSE /\ tRet' = [call |-> "Connect", err |-> "failed to connect"]
                 /\ UNCHANGED <<conn, isClient, wg, out2Pc>>
    /\ UNCHANGED <<received, out2Msg, conn2, tree, loop2, sent, inb>>
    /\ UNCHANGED <<tInbound, tOutbound, inClosed, outClosed, listener,
                   isServer, tDone, mu, outPc, outMsg, closePc, wire>>
    /\ UNCHANGED <<nodeVars, asmVars, srvVars>>

\* processOutbound started by Connect, case msg := <-t.outbound.
Out2Receive ==
    /\ ~panicked
    /\ out2Pc = "select"
    /\ \/ /\ Len(tOutbound[ServerT]) > 0
          /\ out2Msg' = Head(tOutbound[ServerT])
          /\ tOutbound' = [tOutbound EXCEPT ![ServerT] = Tail(@)]
       \/ /\ Len(tOutbound[ServerT]) = 0
          /\ outClosed[ServerT]
          /\ Len(wire[ServerT]) < MaxStray
          /\ out2Msg' = NoMsg
          /\ tOutbound' = tOutbound
    /\ out2Pc' = "sendMessage"
    /\ UNCHANGED <<received, tRet, conn2, tree, loop2, sent, inb>>
    /\ UNCHANGED <<tInbound, inClosed, outClosed, listener, conn, isServer,
                   isClient, tDone, wg, mu, outPc, outMsg, closePc, wire>>
    /\ UNCHANGED <<nodeVars, asmVars, srvVars>>

\* processOutbound started by Connect, case <-t.ctx.Done(): return, and the
\* deferred wg.Done().
Out2Cancelled ==
    /\ ~panicked
    /\ out2Pc = "select"
    /\ tDone[ServerT]
    /\ out2Pc' = "stopped"
    /\ wg' = [wg EXCEPT ![ServerT] = @ - 1]
    /\ UNCHANGED <<received, out2Msg, tRet, conn2, tree, loop2, sent, inb>>
    /\ UNCHANGED <<tInbound, tOutbound, inClosed, outClosed, listener, conn,
                   isServer, isClient, tDone, mu, outPc, outMsg, closePc, wire>>
    /\ UNCHANGED <<nodeVars, asmVars, srvVars>>

\* sendMessage of that processOutbound, the read of t.conn under the read lock.
Out2SendMessage ==
    /\ ~panicked
    /\ out2Pc = "sendMessage"
    /\ mu[ServerT] = "free"
    /\ IF conn[ServerT] = "nil"
       THEN /\ out2Pc' = "select"
            /\ out2Msg' = NoMsg
       ELSE /\ out2Pc' = "write"
            /\ out2Msg' = out2Msg
    /\ UNCHANGED <<received, tRet, conn2, tree, loop2, sent, inb>>
    /\ UNCHANGED <<tVars, nodeVars, asmVars, srvVars>>

\* sendMessage of that processOutbound, conn.Write.
Out2Write ==
    /\ ~panicked
    /\ out2Pc = "write"
    /\ \/ /\ conn[ServerT] = "open"
          /\ wire' = [wire EXCEPT ![ServerT] = @ \o Encode(out2Msg.Content)]
       \/ wire' = wire
    /\ out2Pc' = "select"
    /\ out2Msg' = NoMsg
    /\ UNCHANGED <<received, tRet, conn2, tree, loop2, sent, inb>>
    /\ UNCHANGED <<tInbound, tOutbound, inClosed, outClosed, listener, conn,
                   isServer, isClient, tDone, wg, mu, outPc, outMsg, closePc>>
    /\ UNCHANGED <<nodeVars, asmVars, srvVars>>

\* Close is called on transport t once more, after an earlier Close returned.
CloseAgain(t) ==
    /\ ~panicked
    /\ UNCHANGED usrVars
    /\ UNCHANGED srvVars
    /\ closePc[t] = "done"
    /\ closePc' = [closePc EXCEPT ![t] = "called"]
    /\ UNCHANGED <<tInbound, tOutbound, inClosed, outClosed, listener, conn,
                   isServer, isClient, tDone, wg, mu, outPc, outMsg, wire>>
    /\ UNCHANGED <<nodeVars, asmVars>>

NextT ==
    \/ TListen
    \/ TConnect
    \/ ListenCtxCancel
    \/ AcceptSelect
    \/ AcceptConn
    \/ AcceptError
    \/ PeerConnect
    \/ PeerClose
    \/ RdScan
    \/ OutReceive(ServerT)
    \/ OutCancelled(ServerT)
    \/ OutSendMessage(ServerT)
    \/ OutWrite(ServerT)
    \/ Out2Receive
    \/ Out2Cancelled
    \/ Out2SendMessage
    \/ Out2Write
    \/ CloseCall(ServerT)
    \/ CloseAgain(ServerT)
    \/ CloseCancel(ServerT)
    \/ CloseLock(ServerT)
    \/ CloseRelease(ServerT)
    \/ CloseWait(ServerT)
    \/ CloseInbound(ServerT)
    \/ CloseOutbound(ServerT)

SpecT == InitSrv /\ [][NextT]_vars

\* C11: in every reachable state a single Transport is in at most one of the
\* states Listening and Connected, Listen and Connect each failing on an
\* instance that is already Listening or Connected.
C11_OneRoleAtMost ==
    ~(listener[ServerT] = "open" /\ conn[ServerT] = "open")

\* C12: once Close has returned, no Listen or Connect succeeds: no listener
\* is bound, no connection is opened and no loop is started.
C12_ClosedIsFinal ==
    [][outClosed[ServerT] =>
          /\ listener'[ServerT] = "open" => listener[ServerT] = "open"
          /\ conn'[ServerT] = "open" => conn[ServerT] = "open"
          /\ wg'[ServerT] <= wg[ServerT]]_vars

\* C15: Close called on a Transport whose Close has already returned does not
\* panic.
C15_SecondCloseNoPanic ==
    inClosed[ServerT] /\ outClosed[ServerT] => ~panicked

(***************************************************************************)
(* Close of a connected transport against its processOutbound.             *)
(***************************************************************************)
\* Some step of processOutbound of transport t.
OutStep(t) ==
    \/ OutReceive(t)
    \/ OutCancelled(t)
    \/ OutSendMessage(t)
    \/ OutWrite(t)

\* C13: Close on a connected Transport always returns: whenever Close waits
\* for the outbound-draining loop, in every interleaving and with messages
\* waiting on the outbound queue, the loop has ended or can still take a step
\* (no deadlock between Close and the loop).
C13_CloseNeverStuck ==
    \A i \in ClientSlots :
        (closePc[i] = "wait" /\ isClient[i]) => (wg[i] = 0 \/ ENABLED OutStep(i))

(***************************************************************************)
(* The server role under fair scheduling: every loop of the transport and  *)
(* Close itself keep taking the steps they can take.  The peer, the owner  *)
(* of the context of Listen and the consumer of the inbound queue are      *)
(* under no obligation.                                                    *)
(***************************************************************************)
\* Some step of acceptConnections.
AcceptStep ==
    \/ AcceptSelect
    \/ AcceptConn
    \/ AcceptError

\* Some step of handleConnection.
RdStep ==
    \/ RdScan
    \/ RdSelect
    \/ RdSend

\* Some step of Close on transport t after the call.
CloseStep(t) ==
    \/ CloseCancel(t)
    \/ CloseLock(t)
    \/ CloseRelease(t)
    \/ CloseWait(t)
    \/ CloseInbound(t)
    \/ CloseOutbound(t)

SpecSrvFair ==
    /\ SpecSrv
    /\ WF_vars(AcceptStep)
    /\ WF_vars(RdStep)
    /\ WF_vars(OutCancelled(ServerT))
    /\ WF_vars(CloseStep(ServerT))

\* C14: Close on a listening Transport always returns using only its own
\* cancellation: the accept loop and every reader loop terminate after Close,
\* whether or not the context passed to Listen has been cancelled and even
\* when an accepted connection is open with a silent peer.
C14_ServerCloseReturns ==
    (closePc[ServerT] = "called" /\ isServer[ServerT])
        ~> (closePc[ServerT] = "done")

(***************************************************************************)
(* The life cycle of the assembly with its Server: Start, the tasks Start  *)
(* spawns, a parent that connects to the Server, and Stop.  No message is  *)
(* sent here: the parent stays silent and the Node's inbound queue stays   *)
(* empty.                                                                  *)
(***************************************************************************)
\* The configurations NewBTreeNode is given here: no slot, a slot without a
\* port, a slot with a port.
LifeConfigs == {<<>>, <<"">>, <<"9001">>}

\* The task Start spawns around bn.Server.Start(bn.ctx): Listen on the
\* Server's transport, its error logged.
AsmListen ==
    /\ asmPc = "started"
    /\ SrvListen

\* What Start returned, "none" while it has not been called.
StartResult == IF asmPc = "started" THEN "nil" ELSE "none"

\* Some step of connectToChild for slot i.
ConnStep(i) ==
    \/ ConnLoop(i)
    \/ ConnectLock(i)
    \/ ConnectDial(i)
    \/ ConnBackoff(i)

\* Some step of Stop after bn.cancel().
StopStep ==
    \/ StopNode
    \/ StopClients
    \/ StopServer

InitLife ==
    /\ \E c \in LifeConfigs : InitNode(Len(c)) /\ InitAssembly(c, "created")
    /\ InitTransports
    /\ InitServer
    /\ InitUsers

NextLife ==
    \/ AsmStart
    \/ AsmListen
    \/ LoopStopped
    \/ \E i \in ClientSlots : ConnLoop(i)
    \/ \E i \in ClientSlots : ConnectLock(i)
    \/ \E i \in ClientSlots : ConnectDial(i)
    \/ \E i \in ClientSlots : ConnBackoff(i)
    \/ \E i \in ClientSlots : BridgeCancelled(i)
    \/ \E t \in TIds : OutReceive(t)
    \/ \E t \in TIds : OutCancelled(t)
    \/ \E t \in TIds : OutSendMessage(t)
    \/ \E t \in TIds : OutWrite(t)
    \/ AcceptSelect
    \/ AcceptConn
    \/ AcceptError
    \/ PeerConnect
    \/ PeerClose
    \/ RdScan
    \/ StopCancel
    \/ StopNode
    \/ StopClients
    \/ StopServer
    \/ \E t \in TIds : CloseCancel(t)
    \/ \E t \in TIds : CloseLock(t)
    \/ \E t \in TIds : CloseRelease(t)
    \/ \E t \in TIds : CloseWait(t)
    \/ \E t \in TIds : CloseInbound(t)
    \/ \E t \in TIds : CloseOutbound(t)

SpecLife == InitLife /\ [][NextLife]_vars

\* Every task and Stop itself keep taking the steps they can take; the parent
\* and the caller of Stop are under no obligation.
SpecLifeFair ==
    /\ SpecLife
    /\ WF_vars(AsmListen)
    /\ WF_vars(LoopStopped)
    /\ \A i \in ClientSlots : WF_vars(ConnStep(i))
    /\ \A i \in ClientSlots : WF_vars(BridgeCancelled(i))
    /\ \A t \in TIds : WF_vars(OutStep(t))
    /\ WF_vars(AcceptStep)
    /\ WF_vars(RdScan)
    /\ WF_vars(StopStep)
    /\ \A t \in TIds : WF_vars(CloseStep(t))

\* C16: the assembly's Stop always returns after Start: once Stop has been
\* called it comes to its return, in every interleaving with the tasks Start
\* spawned, with no children, with children still being retried, and with a
\* parent still connected to the Server.
C16_StopReturns ==
    (stopPc = "node") ~> (stopPc = "done")

\* A task of the assembly or of one of its transports is at work: it has
\* taken a step and has not ended.
TaskRunning ==
    \/ pc[LoopTask] \notin {"none", "stopped"}
    \/ \E i \in ClientSlots : connPc[i] \in {"loop", "connect", "dialing", "backoff"}
    \/ \E i \in ClientSlots : bridgePc[i] \notin {"none", "done"}
    \/ \E t \in TIds : outPc[t] \notin {"none", "stopped"}
    \/ acceptPc \notin {"none", "stopped"}
    \/ rdPc \notin {"none", "done"}

\* C17: once Stop has returned all owned resources are released: no
\* listening socket is bound, no client connection is open and no task
\* spawned by the assembly or its transports is still running, in every
\* interleaving of Stop with the tasks spawned by Start.
C17_StoppedMeansReleased ==
    stopPc = "done" =>
        /\ listener[ServerT] # "open"
        /\ \A i \in ClientSlots : conn[i] # "open"
        /\ ~TaskRunning

\* C18: a bind failure of the Server is surfaced to the caller of Start:
\* whenever the Server's Listen has failed, Start has returned an error.
C18_BindErrorSurfaced ==
    listenPc = "failed" => StartResult \notin {"none", "nil"}


\* C19: for every configuration, NewBTreeNode builds a Node whose arity is the
\* number of child slots of the configuration, one Server, and a Client at
\* slot i if and only if the port of slot i is non-empty: only such a slot
\* ever has a connection task, a bridging task, a connection or a Close, and
\* after Start every such slot has its two tasks.
C19_ClientsFollowPorts ==
    /\ numChildren = Len(config)
    /\ Len(childrenOut) = Len(config)
    /\ \A i \in ClientSlots :
          (i > Len(config) \/ config[i] = "") =>
              /\ connPc[i] = "none"
              /\ bridgePc[i] = "none"
              /\ closePc[i] = "none"
              /\ conn[i] = "nil"
    /\ \A i \in ClientSlots :
          (asmPc = "started" /\ i <= Len(config) /\ config[i] # "") =>
              /\ connPc[i] # "none"
              /\ bridgePc[i] # "none"

\* C19 witness: a configuration with one slot and no port for it, started and
\* stopped: the slot never had a Client.
C19_Witness ==
    /\ config = <<"">>
    /\ stopPc = "done"
    /\ connPc[1] = "none"
    /\ closePc[1] = "none"

(***************************************************************************)
(* Further properties of the Node.                                         *)
(***************************************************************************)
\* The external caller calls HandleMessage or BroadcastToChildren.
ExtBroadcastCall ==
    \E m \in CallerMsgs : ExtHandleMessage(m) \/ ExtBroadcastToChildren(m)

\* C26: on a Node with zero children HandleMessage and BroadcastToChildren
\* return nil at once and touch no queue, for every message and whether or
\* not the context is cancelled: no task is ever inside the broadcast loop,
\* a call of the external caller returns nil in the step that makes it, and
\* the processing task is back at its select once it has taken a message.
C26_LeafReturnsAtOnce ==
    /\ [](numChildren = 0 => \A t \in Tasks : ~Broadcasting(t))
    /\ [][(numChildren = 0 /\ ExtBroadcastCall) =>
            /\ pc'[ExtTask] = "idle"
            /\ ret'[ExtTask] = "nil"
            /\ UNCHANGED <<inbound, childrenOut>>]_vars
    /\ [][(numChildren = 0 /\ LoopReceive) =>
            /\ pc'[LoopTask] = "select"
            /\ ret'[LoopTask] = "nil"
            /\ inbound' = Tail(inbound)
            /\ childrenOut' = childrenOut]_vars

\* C26 witness: on a Node without children the external caller's HandleMessage
\* has returned nil under a cancelled context, and the stopped Node's
\* processing task has handled a message.
C26_Witness ==
    /\ numChildren = 0
    /\ extDone
    /\ nodeDone
    /\ op[ExtTask] = "HandleMessage"
    /\ pc[ExtTask] = "idle"
    /\ ret[ExtTask] = "nil"
    /\ op[LoopTask] = "HandleMessage"
    /\ ret[LoopTask] = "nil"

\* C27: SendToChild(i, m) with i in range waits until m is enqueued on slot i
\* or the context is cancelled: at a full queue under a live context it
\* cannot return and it keeps m as it was given; it returns nil only having
\* appended m once to queue i, returns the context's error only with the
\* context cancelled and queue i as it was, and changes no other queue.
C27_SendWaits ==
    /\ [](pc[ExtTask] = "send" =>
            /\ idx[ExtTask] = extIdx + 1
            /\ idx[ExtTask] \in 1..Len(childrenOut)
            /\ msg[ExtTask] = arg[ExtTask]
            /\ (Len(childrenOut[idx[ExtTask]]) >= ChanCap /\ ~extDone) =>
                   ~ENABLED SendStep)
    /\ [][SendStep =>
            LET i == idx[ExtTask]
            IN  /\ pc'[ExtTask] = "idle"
                /\ ret'[ExtTask] \in {"nil", "ctxErr"}
                /\ ret'[ExtTask] = "nil" =>
                       childrenOut'[i] = Append(childrenOut[i], arg[ExtTask])
                /\ ret'[ExtTask] = "ctxErr" =>
                       extDone /\ childrenOut'[i] = childrenOut[i]
                /\ \A j \in 1..Len(childrenOut) :
                       j # i => childrenOut'[j] = childrenOut[j]
                /\ inbound' = inbound]_vars

\* C27 witness: SendToChild waits at the full queue of the last slot of a
\* Node of the largest arity, its context live, another queue not full.
C27_Witness ==
    /\ numChildren = MaxArity
    /\ pc[ExtTask] = "send"
    /\ idx[ExtTask] = MaxArity
    /\ ~extDone
    /\ Len(childrenOut[MaxArity]) = ChanCap
    /\ Len(childrenOut[1]) < ChanCap
    /\ msg[ExtTask].Source = "peer"

\* Task t returns from a call of HandleMessage in this step.
HandleMessageReturns(t) ==
    \/ /\ Broadcasting(t)
       /\ op[t] = "HandleMessage"
       /\ ~Broadcasting(t)'
    \/ /\ ~Broadcasting(t)
       /\ IF t = LoopTask THEN LoopReceive
                          ELSE \E m \in CallerMsgs : ExtHandleMessage(m)
       /\ ~Broadcasting(t)'

\* C28: HandleMessage returns nil unless it is interrupted by cancellation:
\* under a context that is not cancelled a call can always go on, whatever
\* the fill level of the queues, and returns nil; a call returns the
\* context's error only when its context is cancelled; it returns nothing
\* else.
C28_NilUnlessCancelled ==
    /\ [](\A t \in Tasks :
            (Broadcasting(t) /\ op[t] = "HandleMessage" /\ ~CtxDone(t)) =>
                ENABLED BroadcastStep(t))
    /\ [][\A t \in Tasks :
            HandleMessageReturns(t) =>
                /\ ret'[t] \in {"nil", "ctxErr"}
                /\ ~CtxDone(t) => ret'[t] = "nil"
                /\ ret'[t] = "ctxErr" => CtxDone(t)]_vars

\* C28 witness: HandleMessage has returned nil under a live context with every
\* queue of a Node of the largest arity full.
C28_Witness ==
    /\ numChildren = MaxArity
    /\ op[ExtTask] = "HandleMessage"
    /\ pc[ExtTask] = "idle"
    /\ ret[ExtTask] = "nil"
    /\ ~extDone
    /\ \A i \in 1..MaxArity :
        /\ Len(childrenOut[i]) = ChanCap
        /\ Last(childrenOut[i]).Source = NodeName
        /\ Last(childrenOut[i]).Content # <<"b">>

\* C29: a Node's arity and queue set never change after construction: after
\* any sequence of Start, Stop, HandleMessage, BroadcastToChildren,
\* SendToChild and accessor calls, index errors and cancellations included,
\* the Node has the child queues it was created with, and GetChildChannel
\* hands out the same queue for the same index.
C29_ArityFixed ==
    /\ [](/\ GetNumChildren = numChildren
          /\ DOMAIN childrenOut = 1..numChildren
          /\ (op[ExtTask] = "GetChildChannel" /\ ret[ExtTask] = "nil") =>
                 extChan = extIdx + 1)
    /\ [][/\ numChildren' = numChildren
          /\ DOMAIN childrenOut' = DOMAIN childrenOut]_vars

\* C29 witness: a stopped Node of the largest arity whose processing task was
\* cancelled inside a broadcast and whose external caller got an index error,
\* messages still queued.
C29_Witness ==
    /\ numChildren = MaxArity
    /\ nodeDone
    /\ ret[LoopTask] = "ctxErr"
    /\ op[ExtTask] = "SendToChild"
    /\ ret[ExtTask] = "indexErr"
    /\ childrenOut[1] # <<>>

(***************************************************************************)
(* The Node from before its construction: NewNode is a step, called with   *)
(* any arity, negative ones included.                                      *)
(***************************************************************************)
\* The numChildren arguments NewNode is called with.
NewArgs == -1..MaxArity

\* NewNode(name, numChildren) is about to be called by the external caller.
InitNew ==
    /\ numChildren \in NewArgs
    /\ inbound = <<>>
    /\ childrenOut = <<>>
    /\ nodeDone = FALSE
    /\ pc = [t \in Tasks |-> IF t = LoopTask THEN "none" ELSE "new"]
    /\ msg = [t \in Tasks |-> NoMsg]
    /\ arg = [t \in Tasks |-> NoMsg]
    /\ idx = [t \in Tasks |-> 0]
    /\ ret = [t \in Tasks |-> "none"]
    /\ op = [t \in Tasks |-> "none"]
    /\ extIdx = 0
    /\ extChan = 0
    /\ extDone = FALSE
    /\ ops = 0
    /\ InitTransports
    /\ InitAssembly(<<>>, "none")
    /\ InitServer
    /\ InitUsers

\* NewNode(name, numChildren): make([]chan Message, numChildren) panics for a
\* negative length; else the queues are made and the Node is returned.
NewNodeCall ==
    /\ ~panicked
    /\ UNCHANGED usrVars
    /\ UNCHANGED srvVars
    /\ pc[ExtTask] = "new"
    /\ IF numChildren < 0
       THEN /\ panicked' = TRUE
            /\ UNCHANGED <<inbound, childrenOut, nodeDone, pc>>
       ELSE /\ panicked' = panicked
            /\ inbound' = NewNode(numChildren).inbound
            /\ childrenOut' = NewNode(numChildren).childrenOut
            /\ nodeDone' = NewNode(numChildren).done
            /\ pc' = [pc EXCEPT ![ExtTask] = "idle"]
    /\ UNCHANGED <<numChildren, msg, arg, idx, ret, op, extIdx, extChan,
                   extDone, ops>>
    /\ UNCHANGED <<config, asmPc, bnDone, stopPc, stopIdx, connPc, attempt,
                   bridgePc, bridgeMsg>>
    /\ UNCHANGED tVars

\* The Node's methods are called on a Node that NewNode returned.
Built == pc[ExtTask] # "new"

NextNew ==
    \/ NewNodeCall
    \/ Built /\ Start
    \/ Built /\ Stop
    \/ Built /\ CancelExt
    \/ Built /\ \E m \in ProducerMsgs : Produce(m)
    \/ Built /\ \E i \in 1..MaxArity : ReadChild(i)
    \/ Built /\ LoopReceive
    \/ Built /\ LoopStopped
    \/ Built /\ \E t \in Tasks : BroadcastStep(t)
    \/ Built /\ \E m \in CallerMsgs : ExtHandleMessage(m)
    \/ Built /\ \E m \in CallerMsgs : ExtBroadcastToChildren(m)
    \/ Built /\ \E i \in Indices, m \in CallerMsgs : SendToChild(i, m)
    \/ Built /\ SendStep
    \/ Built /\ \E i \in Indices : GetChildChannel(i)

SpecNew == InitNew /\ [][NextNew]_vars

\* C30: creating a Node with a negative arity fails: the call reports an
\* error to its caller, the process does not crash and no Node is produced.
C30_NegativeArityFails ==
    numChildren < 0 =>
        /\ ~panicked
        /\ pc[ExtTask] # "new" => ret[ExtTask] = "arityErr"

(***************************************************************************)
(* The outbound side of one Client: a sender on its outbound queue, the    *)
(* loop that drains the queue to the connection, and the assembly that     *)
(* connects and stops the Client.                                          *)
(***************************************************************************)
\* How many messages the sender enqueues in one behaviour: enough to fill the
\* outbound queue and add one more.
MaxOutMsgs == ChanCap + 1

\* The contents of the messages the sender enqueues, all different.
OutLetters == <<"a", "b", "c", "d", "e", "f">>

\* The n-th message the sender enqueues.
OutMsg(n) ==
    [Content |-> <<OutLetters[((n - 1) % Len(OutLetters)) + 1]>>, ID |-> "",
     Timestamp |-> n, Source |-> NodeName]

\* A send on GetOutboundChannel() of the Client of slot i: it waits for room,
\* and panics on a queue Close has closed.
OutProduce(i) ==
    /\ ~panicked
    /\ ops < MaxOutMsgs
    /\ IF outClosed[i]
       THEN /\ panicked' = TRUE
            /\ UNCHANGED <<tOutbound, ops>>
       ELSE /\ Len(tOutbound[i]) < ChanCap
            /\ tOutbound' = [tOutbound EXCEPT ![i] = Append(@, OutMsg(ops + 1))]
            /\ ops' = ops + 1
            /\ panicked' = panicked
    /\ UNCHANGED <<numChildren, inbound, childrenOut, nodeDone, pc, msg, arg,
                   idx, ret, op, extIdx, extChan, extDone>>
    /\ UNCHANGED <<tInbound, inClosed, outClosed, listener, conn, isServer,
                   isClient, tDone, wg, mu, outPc, outMsg, closePc, wire>>
    /\ UNCHANGED <<config, asmPc, bnDone, stopPc, stopIdx, connPc, attempt,
                   bridgePc, bridgeMsg>>
    /\ UNCHANGED <<srvVars, usrVars>>

\* The contents of the messages enqueued on the outbound queue so far.
OutEnqueued == [n \in 1..ops |-> OutMsg(n).Content]

\* The lines written to the connection of slot i so far.
OutLines(i) == SplitLF(wire[i])

InitOut ==
    /\ InitNode(1)
    /\ InitAssembly(<<"9001">>, "created")
    /\ InitTransports
    /\ InitServer
    /\ InitUsers

NextOut ==
    \/ AsmStart
    \/ LoopStopped
    \/ \E i \in ClientSlots : OutProduce(i)
    \/ \E i \in ClientSlots : ConnLoop(i)
    \/ \E i \in ClientSlots : ConnectLock(i)
    \/ \E i \in ClientSlots : ConnectDial(i)
    \/ \E i \in ClientSlots : ConnBackoff(i)
    \/ \E i \in ClientSlots : BridgeCancelled(i)
    \/ \E i \in ClientSlots : OutReceive(i)
    \/ \E i \in ClientSlots : OutCancelled(i)
    \/ \E i \in ClientSlots : OutSendMessage(i)
    \/ \E i \in ClientSlots : OutWrite(i)
    \/ StopCancel
    \/ StopNode
    \/ StopClients
    \/ StopServer
    \/ \E t \in TIds : CloseCancel(t)
    \/ \E t \in TIds : CloseLock(t)
    \/ \E t \in TIds : CloseRelease(t)
    \/ \E t \in TIds : CloseWait(t)
    \/ \E t \in TIds : CloseInbound(t)
    \/ \E t \in TIds : CloseOutbound(t)

SpecOut == InitOut /\ [][NextOut]_vars

\* C21: for a single Client, the sequence of lines written to the Client's
\* connection is an order-preserving subsequence of the sequence of messages
\* enqueued on that Client's outbound queue.
C21_WrittenInOrder ==
    \A i \in ClientSlots : IsSubseq(OutLines(i), OutEnqueued)

\* The lines that carry a message keep the order of the queue: the written
\* lines that are not empty are an order-preserving subsequence of the
\* enqueued contents.
OutOrderKept ==
    \A i \in ClientSlots : IsSubseq(NonEmptyLines(OutLines(i)), OutEnqueued)

\* The draining loop of slot i has just come back from a write that put
\* nothing on the wire.
OutWriteFailed(i) ==
    /\ outPc[i] = "write"
    /\ outPc'[i] # "write"
    /\ wire'[i] = wire[i]

\* C25: a write failure for one outbound message does not stop the
\* outbound-draining loop: the failed message is discarded without retry (the
\* loop is back at its select with no message in hand and the queue as it
\* was), the loop can take the next queued message, and the error does not
\* reach the Node or the assembly (their state is unchanged, nothing panics).
C25_WriteFailureGoesOn ==
    /\ [][\A i \in ClientSlots :
            OutWriteFailed(i) =>
                /\ outPc'[i] = "select"
                /\ outMsg'[i] = NoMsg
                /\ tOutbound'[i] = tOutbound[i]
                /\ wg'[i] = wg[i]
                /\ panicked' = panicked
                /\ UNCHANGED <<nodeVars, asmVars>>]_vars
    /\ [](\A i \in ClientSlots :
            (outPc[i] = "select" /\ Len(tOutbound[i]) > 0 /\ ~panicked)
                => ENABLED OutReceive(i))

\* The first message was lost to a failed write on an open connection and
\* the second one was written after it.
C25_Witness ==
    \E i \in ClientSlots :
        /\ OutLines(i) = <<OutMsg(2).Content>>
        /\ conn[i] = "open"
        /\ closePc[i] = "none"
        /\ outPc[i] = "select"

(***************************************************************************)
(* An assembly with two child slots, one with a port and one without.      *)
(***************************************************************************)
\* The slots of the assembly, with and without a Client.
AllSlots == 1..Len(config)

\* The configurations: the slot without a port first, or second.
SlotConfigs == {<<"", "9001">>, <<"9001", "">>}

\* wireChildOutbound of a slot that has a Client whose transport is not
\* followed further: it takes the next message of the slot's queue and passes
\* it on; the messages passed on are kept.
BridgeTake(i) ==
    /\ ~panicked
    /\ HasClient(i)
    /\ i \notin ClientSlots
    /\ asmPc = "started"
    /\ ~bnDone
    /\ Len(childrenOut[i]) > 0
    /\ received' = [received EXCEPT ![i] = Append(@, Head(childrenOut[i]))]
    /\ childrenOut' = [childrenOut EXCEPT ![i] = Tail(@)]
    /\ UNCHANGED <<out2Pc, out2Msg, tRet, conn2, tree, loop2, sent, inb>>
    /\ UNCHANGED <<numChildren, inbound, nodeDone, pc, msg, arg, idx, ret, op,
                   extIdx, extChan, extDone, ops>>
    /\ UNCHANGED <<tVars, asmVars, srvVars>>

InitSlots ==
    /\ \E c \in SlotConfigs : InitNode(Len(c)) /\ InitAssembly(c, "created")
    /\ InitTransports
    /\ InitServer
    /\ InitUsers

NextSlots ==
    \/ AsmStart
    \/ OrdProduce
    \/ LoopReceive
    \/ BroadcastStep(LoopTask)
    \/ \E i \in 1..MaxArity : BridgeTake(i)
    \/ \E i \in ClientSlots : ConnLoop(i)
    \/ \E i \in ClientSlots : ConnectLock(i)
    \/ \E i \in ClientSlots : ConnectDial(i)
    \/ \E i \in ClientSlots : ConnBackoff(i)
    \/ \E i \in ClientSlots : BridgeReceive(i)
    \/ \E i \in ClientSlots : BridgeSend(i)
    \/ \E i \in ClientSlots : OutReceive(i)
    \/ \E i \in ClientSlots : OutSendMessage(i)
    \/ \E i \in ClientSlots : OutWrite(i)

SpecSlots == InitSlots /\ [][NextSlots]_vars

\* Slot i of the assembly has no port.
Portless(i) == i \in AllSlots /\ config[i] = ""

\* C23: for a child slot with an empty address the assembly creates no Client
\* and spawns no connection or bridging task; the Node's queue for that slot
\* is never drained (every step leaves what it holds at its head), it
\* accumulates broadcast messages until it holds its capacity, and then every
\* further broadcast leaves it as it is.
C23_PortlessSlotFills ==
    /\ [](\A i \in AllSlots :
            Portless(i) =>
                /\ Len(childrenOut[i]) <= ChanCap
                /\ i \in ClientSlots =>
                      /\ connPc[i] = "none"
                      /\ bridgePc[i] = "none"
                      /\ outPc[i] = "none"
                      /\ conn[i] = "nil"
                      /\ tOutbound[i] = <<>>
                /\ received[i] = <<>>)
    /\ [][\A i \in AllSlots :
            Portless(i) =>
                /\ IsPrefix(childrenOut[i], childrenOut'[i])
                /\ Len(childrenOut[i]) = ChanCap
                      => childrenOut'[i] = childrenOut[i]]_vars

\* The slot without a port is full, the broadcast loop has handled a message
\* after that, and the other slot was served with it: it holds, or has passed
\* on, a message later than all those the full slot holds.
C23_Witness ==
    \E i \in AllSlots :
        /\ Portless(i)
        /\ Len(childrenOut[i]) = ChanCap
        /\ \E j \in AllSlots \ {i} :
              \E k \in 1..Len(childrenOut[j]) :
                  childrenOut[j][k].Timestamp > ChanCap

(***************************************************************************)
(* The Server with two accepted connections, each with its own             *)
(* handleConnection.                                                       *)
(***************************************************************************)
\* The bytes the second peer writes.
Bytes2 == {"b", LF}

\* How many bytes the second peer writes in one behaviour: a line at least.
MaxBytes2 == MaxBytes \div 2

\* The bytes of the second connection that have arrived and its scanner has
\* not consumed, what the scanner's buffer holds of them, and whether the
\* scanner has read the end of the input.
Unread2 == SubSeq(conn2.rx, conn2.rdPos + 1, Len(conn2.rx))
ScanBuf2 == SubSeq(Unread2, 1, IF Len(Unread2) < MaxToken THEN Len(Unread2) ELSE MaxToken)
AtEOF2 == conn2.peerClosed /\ Len(Unread2) < MaxToken

\* What every step of the second connection leaves alone but for the named
\* variables of the transport.
Frame2 ==
    /\ UNCHANGED <<received, out2Pc, out2Msg, tRet, tree, loop2, sent, inb>>
    /\ UNCHANGED <<tOutbound, inClosed, outClosed, listener, conn, isServer,
                   isClient, tDone, mu, outPc, outMsg, closePc, wire>>
    /\ UNCHANGED <<listenPc, listenDone, connState, rx, peerClosed, rdPc,
                   rdPos, text, scanErr, linesRead, got>>
    /\ UNCHANGED <<config, asmPc, bnDone, stopPc, stopIdx, connPc, attempt,
                   bridgePc, bridgeMsg>>
    /\ UNCHANGED nodeVars

\* A second peer connects to the listening Server.
Peer2Connect ==
    /\ ~panicked
    /\ listener[ServerT] = "open"
    /\ conn2.state = "none"
    /\ conn2' = [conn2 EXCEPT !.state = "pending"]
    /\ UNCHANGED <<tInbound, wg, acceptPc, panicked>>
    /\ Frame2

\* The second peer writes one byte on its connection.
Peer2Write(b) ==
    /\ ~panicked
    /\ conn2.state \in {"pending", "accepted"}
    /\ ~conn2.peerClosed
    /\ Len(conn2.rx) < MaxBytes2
    /\ conn2' = [conn2 EXCEPT !.rx = Append(@, b)]
    /\ UNCHANGED <<tInbound, wg, acceptPc, panicked>>
    /\ Frame2

\* The second peer closes its end of the connection.
Peer2Close ==
    /\ ~panicked
    /\ conn2.state \in {"pending", "accepted"}
    /\ ~conn2.peerClosed
    /\ conn2' = [conn2 EXCEPT !.peerClosed = TRUE]
    /\ UNCHANGED <<tInbound, wg, acceptPc, panicked>>
    /\ Frame2

\* acceptConnections, t.listener.Accept() returns the second connection:
\* another handleConnection is started on it.
AcceptConn2 ==
    /\ ~panicked
    /\ acceptPc = "accept"
    /\ listener[ServerT] = "open"
    /\ conn2.state = "pending"
    /\ conn2' = [conn2 EXCEPT !.state = "accepted", !.rdPc = "scan"]
    /\ wg' = [wg EXCEPT ![ServerT] = @ + 1]
    /\ acceptPc' = "select"
    /\ UNCHANGED <<tInbound, panicked>>
    /\ Frame2

\* handleConnection of the second connection returns: the deferred
\* conn.Close() and wg.Done().
Rd2Return ==
    /\ conn2' = [conn2 EXCEPT !.rdPc = "done", !.text = <<>>, !.state = "closed"]
    /\ wg' = [wg EXCEPT ![ServerT] = @ - 1]

\* handleConnection of the second connection, scanner.Scan().
Rd2Scan ==
    /\ ~panicked
    /\ conn2.rdPc = "scan"
    /\ IF ScanLines(ScanBuf2, AtEOF2).found
       THEN /\ conn2' = [conn2 EXCEPT
                            !.text = ScanLines(ScanBuf2, AtEOF2).token,
                            !.rdPos = @ + ScanLines(ScanBuf2, AtEOF2).advance,
                            !.rdPc = "select"]
            /\ wg' = wg
       ELSE IF Len(ScanBuf2) = MaxToken
       THEN /\ conn2' = [conn2 EXCEPT !.rdPc = "done", !.text = <<>>,
                                      !.state = "closed",
                                      !.scanErr = "ErrTooLong"]
            /\ wg' = [wg EXCEPT ![ServerT] = @ - 1]
       ELSE /\ AtEOF2
            /\ Rd2Return
    /\ UNCHANGED <<tInbound, acceptPc, panicked>>
    /\ Frame2

\* handleConnection of the second connection, the select on t.ctx.Done() with
\* its default, then the test on the line.
Rd2Select ==
    /\ ~panicked
    /\ conn2.rdPc = "select"
    /\ IF tDone[ServerT]
       THEN Rd2Return
       ELSE /\ conn2' = [conn2 EXCEPT
                            !.rdPc = IF KeepsLine(conn2.text) THEN "send" ELSE "scan",
                            !.text = IF KeepsLine(conn2.text) THEN @ ELSE <<>>]
            /\ wg' = wg
    /\ UNCHANGED <<tInbound, acceptPc, panicked>>
    /\ Frame2

\* handleConnection of the second connection, the select that sends the
\* Message.
Rd2Send ==
    /\ ~panicked
    /\ conn2.rdPc = "send"
    /\ \/ /\ inClosed[ServerT]
          /\ panicked' = TRUE
          /\ UNCHANGED <<tInbound, conn2, wg>>
       \/ /\ ~inClosed[ServerT]
          /\ Len(tInbound[ServerT]) < ChanCap
          /\ tInbound' = [tInbound EXCEPT
                             ![ServerT] = Append(@, LineMessage(conn2.text))]
          /\ conn2' = [conn2 EXCEPT !.rdPc = "scan", !.text = <<>>]
          /\ UNCHANGED <<wg, panicked>>
       \/ /\ tDone[ServerT]
          /\ Rd2Return
          /\ UNCHANGED <<tInbound, panicked>>
    /\ UNCHANGED acceptPc
    /\ Frame2

NextConns ==
    \/ SrvListen
    \/ ListenCtxCancel
    \/ AcceptSelect
    \/ AcceptConn
    \/ AcceptConn2
    \/ PeerConnect
    \/ \E b \in Bytes : PeerWrite(b)
    \/ PeerClose
    \/ Peer2Connect
    \/ \E b \in Bytes2 : Peer2Write(b)
    \/ Peer2Close
    \/ RdScan
    \/ RdSelect
    \/ RdSend
    \/ Rd2Scan
    \/ Rd2Select
    \/ Rd2Send

SpecConns == InitSrv /\ [][NextConns]_vars

\* C24: a read error or peer disconnect on one accepted connection terminates
\* only that connection's reader loop: the step that ends a reader changes
\* nothing of the accept loop, the listener, the other connection or the
\* inbound queue, and afterwards, as long as the context of Listen is not
\* cancelled, the accept loop is still running on the open listener and can
\* accept a waiting connection, and the other reader can still scan its next
\* line and deliver it to the inbound queue.
C24_ReaderEndsAlone ==
    /\ [][(rdPc # "done" /\ rdPc' = "done") =>
            /\ UNCHANGED <<acceptPc, listener, conn2, tInbound, panicked>>]_vars
    /\ [][(conn2.rdPc # "done" /\ conn2'.rdPc = "done") =>
            /\ UNCHANGED <<acceptPc, listener, tInbound, panicked>>
            /\ UNCHANGED <<connState, rx, peerClosed, rdPc, rdPos, text>>]_vars
    /\ []((rdPc = "done" \/ conn2.rdPc = "done") /\ ~listenDone =>
            /\ acceptPc \in {"select", "accept"}
            /\ listener[ServerT] = "open"
            /\ acceptPc = "select" => ENABLED AcceptSelect
            /\ (acceptPc = "accept" /\ connState = "pending")
                  => ENABLED AcceptConn
            /\ (acceptPc = "accept" /\ conn2.state = "pending")
                  => ENABLED AcceptConn2
            /\ (rdPc = "scan" /\ LFIndex(ScanBuf) > 0) => ENABLED RdScan
            /\ (conn2.rdPc = "scan" /\ LFIndex(ScanBuf2) > 0)
                  => ENABLED Rd2Scan
            /\ (rdPc = "send" /\ Len(tInbound[ServerT]) < ChanCap)
                  => ENABLED RdSend
            /\ (conn2.rdPc = "send" /\ Len(tInbound[ServerT]) < ChanCap)
                  => ENABLED Rd2Send)

\* The first reader has ended on a line too long for the scanner, and the
\* second reader, accepted on the same listener, is about to deliver a line.
C24_Witness ==
    /\ rdPc = "done"
    /\ scanErr = "ErrTooLong"
    /\ ~listenDone
    /\ conn2.rdPc = "send"
    /\ Len(tInbound[ServerT]) < ChanCap

(***************************************************************************)
(* A tree of two Nodes: the root, and a child whose inbound queue a         *)
(* bridging task feeds from the root's first child queue.                  *)
(***************************************************************************)
\* What every step of the child and of the bridging task leaves alone.
TreeFrame ==
    /\ UNCHANGED <<received, out2Pc, out2Msg, tRet, conn2, loop2, sent, inb>>
    /\ UNCHANGED <<numChildren, inbound, nodeDone, pc, msg, arg, idx, ret, op,
                   extIdx, extChan, extDone, ops>>
    /\ UNCHANGED <<tVars, asmVars, srvVars>>

\* left.Start(): the child's processing task is spawned.
TreeStart ==
    /\ ~panicked
    /\ tree.pc = "none"
    /\ tree' = [tree EXCEPT !.pc = "select"]
    /\ UNCHANGED childrenOut
    /\ TreeFrame

\* The bridging task, for msg := range root.GetLeftChannel(): it takes the
\* next message and records it.
TreeBridgeReceive ==
    /\ ~panicked
    /\ tree.bridgePc = "range"
    /\ Len(childrenOut) >= 1
    /\ Len(childrenOut[1]) > 0
    /\ tree' = [tree EXCEPT !.fwd = Head(childrenOut[1]),
                            !.seen = Append(@, Head(childrenOut[1]).Timestamp),
                            !.bridgePc = "forward"]
    /\ childrenOut' = [childrenOut EXCEPT ![1] = Tail(@)]
    /\ TreeFrame

\* The bridging task, the select on left.GetInboundChannel() <- msg with its
\* default: the message is forwarded when the child's inbound queue has room
\* and given up when it has none.
TreeBridgeForward ==
    /\ ~panicked
    /\ tree.bridgePc = "forward"
    /\ tree' = [tree EXCEPT
                   !.inbound = IF Len(@) < ChanCap THEN Append(@, tree.fwd) ELSE @,
                   !.fwd = NoMsg,
                   !.bridgePc = "range"]
    /\ UNCHANGED childrenOut
    /\ TreeFrame

\* The child's messageLoop, case msg := <-n.inbound.
TreeLoopReceive ==
    /\ ~panicked
    /\ tree.pc = "select"
    /\ Len(tree.inbound) > 0
    /\ tree' = [tree EXCEPT !.msg = Head(tree.inbound),
                            !.inbound = Tail(@),
                            !.pc = "handle"]
    /\ UNCHANGED childrenOut
    /\ TreeFrame

\* The child's HandleMessage: the source is rewritten and the broadcast to
\* the child's own children, of which it has none, returns at once.
TreeLoopHandle ==
    /\ ~panicked
    /\ tree.pc = "handle"
    /\ tree' = [tree EXCEPT !.handled = Append(@, tree.msg.Timestamp),
                            !.msg = NoMsg,
                            !.pc = "select"]
    /\ UNCHANGED childrenOut
    /\ TreeFrame

\* The root has received and handled message n: it has left the inbound queue
\* and the broadcast of it has returned.
RootHandled(n) ==
    /\ n <= ops
    /\ \A k \in 1..Len(inbound) : inbound[k].Timestamp # n
    /\ ~(pc[LoopTask] = "broadcast" /\ msg[LoopTask].Timestamp = n)

\* The child has received and handled message n.
ChildHandled(n) == \E k \in 1..Len(tree.handled) : tree.handled[k] = n

InitTree ==
    /\ InitNode(1)
    /\ InitTransports
    /\ InitAssembly(<<>>, "none")
    /\ InitServer
    /\ InitUsers

NextTree ==
    \/ Start
    \/ TreeStart
    \/ OrdProduce
    \/ LoopReceive
    \/ BroadcastStep(LoopTask)
    \/ TreeBridgeReceive
    \/ TreeBridgeForward
    \/ TreeLoopReceive
    \/ TreeLoopHandle

SpecTree == InitTree /\ [][NextTree]_vars

\* The caller starts both Nodes, and every task keeps taking the steps it can
\* take; the sender is under no obligation.
SpecTreeFair ==
    /\ SpecTree
    /\ WF_vars(Start)
    /\ WF_vars(TreeStart)
    /\ WF_vars(LoopReceive)
    /\ WF_vars(BroadcastStep(LoopTask))
    /\ WF_vars(TreeBridgeReceive)
    /\ WF_vars(TreeBridgeForward)
    /\ WF_vars(TreeLoopReceive)
    /\ WF_vars(TreeLoopHandle)

C39_StopOnlyCancels ==
    /\ [][(~nodeDone /\ nodeDone') =>
            /\ inbound' = inbound
            /\ childrenOut' = childrenOut
            /\ numChildren' = numChildren
            /\ panicked' = panicked]_vars
    /\ [](nodeDone =>
            /\ ~panicked
            /\ \A i \in 1..Len(childrenOut) :
                  childrenOut[i] # <<>> => ENABLED ReadChild(i)
            /\ (Len(inbound) < ChanCap /\ ops < MaxOps) =>
                  \A m \in ProducerMsgs : ENABLED Produce(m))

\* The Node was stopped with messages on its inbound queue and on a child
\* queue, and a producer has put another message on the inbound queue since.
C39_Witness ==
    /\ nodeDone
    /\ Len(inbound) = ChanCap
    /\ pc[LoopTask] = "stopped"
    /\ numChildren >= 1
    /\ childrenOut[1] # <<>>

\* The processing task keeps taking the steps it can take; the producer, the
\* readers and the callers of Start and Stop are under no obligation.
SpecOrdFair ==
    /\ SpecOrd
    /\ WF_vars(LoopReceive)
    /\ WF_vars(BroadcastStep(LoopTask))

\* C34: while a Node is running (started, not stopped) every message placed
\* on its inbound queue is eventually taken by the processing task and passed
\* to HandleMessage, unless the Node is stopped first; the task ends only on
\* cancellation, and a call of HandleMessage that returns an error leaves it
\* at the head of its loop.
C34_InboundIsServed ==
    /\ \A n \in 1..MaxOrdOps :
          ((\E k \in 1..Len(inbound) : inbound[k].Timestamp = n)
              /\ pc[LoopTask] \notin {"none", "stopped"})
          ~> (nodeDone
                \/ (n <= ops /\ \A k \in 1..Len(inbound) : inbound[k].Timestamp # n))
    /\ [](pc[LoopTask] = "stopped" => nodeDone)
    /\ [][(pc[LoopTask] = "broadcast" /\ pc'[LoopTask] # "broadcast")
            => pc'[LoopTask] = "select"]_vars

\* The Node was stopped during a broadcast, HandleMessage returned the error
\* of the cancelled context, and the processing task is back at its select
\* with a message waiting.
C34_Witness ==
    /\ nodeDone
    /\ op[LoopTask] = "HandleMessage"
    /\ ret[LoopTask] = "ctxErr"
    /\ pc[LoopTask] = "select"
    /\ inbound # <<>>

(***************************************************************************)
(* A Node on which Start is called twice: two processing tasks on one      *)
(* inbound queue.                                                          *)
(***************************************************************************)
\* What every step of the second processing task leaves alone.
Loop2Frame ==
    /\ UNCHANGED <<received, out2Pc, out2Msg, tRet, conn2, tree, sent, inb>>
    /\ UNCHANGED <<numChildren, nodeDone, pc, msg, arg, idx, ret, op, extIdx,
                   extChan, extDone, ops>>
    /\ UNCHANGED <<tVars, asmVars, srvVars>>

\* Start, called again: another messageLoop is spawned.
Start2 ==
    /\ ~panicked
    /\ pc[LoopTask] # "none"
    /\ loop2.pc = "none"
    /\ loop2' = [loop2 EXCEPT !.pc = "select"]
    /\ UNCHANGED <<inbound, childrenOut>>
    /\ Loop2Frame

\* A variant of the receive that leaves the message on the queue.
Loop2ReceivePeek ==
    /\ ~panicked
    /\ loop2.pc = "select"
    /\ Len(inbound) > 0
    /\ inbound' = inbound
    /\ loop2' = IF Len(childrenOut) = 0
                THEN loop2
                ELSE [pc |-> "broadcast", msg |-> Stamp(Head(inbound)), idx |-> 1]
    /\ UNCHANGED childrenOut
    /\ Loop2Frame

\* The second messageLoop, case msg := <-n.inbound: HandleMessage(n.ctx, msg),
\* which returns at once on a Node without children.
Loop2Receive ==
    /\ ~panicked
    /\ loop2.pc = "select"
    /\ Len(inbound) > 0
    /\ inbound' = Tail(inbound)
    /\ loop2' = IF Len(childrenOut) = 0
                THEN loop2
                ELSE [pc |-> "broadcast", msg |-> Stamp(Head(inbound)), idx |-> 1]
    /\ UNCHANGED childrenOut
    /\ Loop2Frame

\* The second messageLoop, case <-n.ctx.Done(): return.
Loop2Stopped ==
    /\ ~panicked
    /\ loop2.pc = "select"
    /\ nodeDone
    /\ loop2' = [loop2 EXCEPT !.pc = "stopped"]
    /\ UNCHANGED <<inbound, childrenOut>>
    /\ Loop2Frame

\* One iteration of BroadcastToChildren's loop in the second task.
Loop2Broadcast ==
    /\ ~panicked
    /\ loop2.pc = "broadcast"
    /\ \E o \in BroadcastSelect(childrenOut[loop2.idx], loop2.msg, nodeDone) :
        /\ childrenOut' = [childrenOut EXCEPT ![loop2.idx] = o.q]
        /\ loop2' = IF o.kind = "cancelled" \/ loop2.idx = Len(childrenOut)
                    THEN [pc |-> "select", msg |-> NoMsg, idx |-> 0]
                    ELSE [loop2 EXCEPT !.idx = @ + 1]
    /\ UNCHANGED inbound
    /\ Loop2Frame

\* The arities of the Node that is started twice: a leaf, one child, two
\* children.
TwoArities == {0, 1, 2}

InitTwo ==
    /\ \E a \in TwoArities : InitNode(a)
    /\ InitTransports
    /\ InitAssembly(<<>>, "none")
    /\ InitServer
    /\ InitUsers

NextTwo ==
    \/ Start
    \/ Start2
    \/ Stop
    \/ OrdProduce
    \/ LoopReceive
    \/ LoopStopped
    \/ BroadcastStep(LoopTask)
    \/ Loop2Receive
    \/ Loop2Stopped
    \/ Loop2Broadcast
    \/ \E i \in 1..MaxArity : OrdReadChild(i)

SpecTwo == InitTwo /\ [][NextTwo]_vars

\* C36: with Start called twice, every inbound message is taken and handled
\* by exactly one of the two processing tasks: a step that takes a message
\* takes the head of the queue and hands it to one task only, the two tasks
\* never hold the same message, a message is never both on the queue and
\* taken, a task at its select can always take a waiting message, and each
\* message is enqueued at most once per child slot.
C36_TakenByOneTask ==
    /\ [][(inbound # <<>> /\ inbound' # inbound /\ Len(inbound') <= Len(inbound)) =>
            /\ inbound' = Tail(inbound)
            /\ Len(childrenOut) > 0 =>
                  \/ /\ msg'[LoopTask] = Stamp(Head(inbound))
                     /\ msg[LoopTask] = NoMsg
                     /\ loop2' = loop2
                  \/ /\ loop2'.msg = Stamp(Head(inbound))
                     /\ loop2.msg = NoMsg
                     /\ msg' = msg]_vars
    /\ [](/\ msg[LoopTask] # NoMsg => msg[LoopTask] # loop2.msg
          /\ \A k \in 1..Len(inbound) :
                /\ inbound[k].Timestamp # msg[LoopTask].Timestamp
                /\ inbound[k].Timestamp # loop2.msg.Timestamp
                /\ \A j \in 1..Len(inbound) :
                      inbound[j].Timestamp = inbound[k].Timestamp => j = k
          /\ (inbound # <<>> /\ pc[LoopTask] = "select") => ENABLED LoopReceive
          /\ (inbound # <<>> /\ loop2.pc = "select") => ENABLED Loop2Receive
          /\ \A i \in 1..Len(childrenOut) :
                \A j, k \in 1..Len(Enqueued(i)) :
                    Enqueued(i)[j].Timestamp = Enqueued(i)[k].Timestamp => j = k)

\* Both processing tasks are inside a broadcast, each with a message of its
\* own, and a third message waits on the inbound queue.
C36_Witness ==
    /\ pc[LoopTask] = "broadcast"
    /\ loop2.pc = "broadcast"
    /\ msg[LoopTask].Timestamp # loop2.msg.Timestamp
    /\ inbound # <<>>

\* C31: every bridging task terminates cleanly when the assembly is stopped:
\* in every interleaving of Stop with a bridging task that holds a message,
\* the forwarding attempt towards an outbound queue that Close has closed
\* never crashes the process.
C31_BridgeEndsCleanly ==
    [][\A i \in ClientSlots :
          (bridgePc[i] = "send" /\ outClosed[i] /\ ~panicked) => ~panicked']_vars

\* C33: the mutex that guards a transport's connection and listener is not
\* held by a task while that task waits on a blocking operation: not by Close
\* while it waits for the loops the transport spawned, not by Connect while it
\* dials.
C33_NoLockAcrossWait ==
    /\ \A t \in TIds : (closePc[t] = "wait" /\ wg[t] > 0) => mu[t] # "Close"
    /\ \A i \in ClientSlots : connPc[i] = "dialing" => mu[i] # "Connect"

\* C32: when Close has retired (closed) the queues of a transport, every loop
\* the transport spawned has terminated: the outbound-draining loop of a
\* transport whose outbound queue is closed, and the accept loop and the
\* reader loop of the Server once its inbound queue is closed, are not
\* running, so no loop sends on or receives from a retired queue.
C32_LoopsEndBeforeQueuesClose ==
    /\ \A t \in TIds : outClosed[t] => outPc[t] \in {"none", "stopped"}
    /\ inClosed[ServerT] =>
          /\ acceptPc \in {"none", "stopped"}
          /\ rdPc \in {"none", "done"}

(***************************************************************************)
(* One hop across the wire: the Client of slot 1 connected to the Server,  *)
(* a sender on the Client's outbound queue, the Client's draining loop and *)
(* the Server's reader of the accepted connection.                         *)
(***************************************************************************)
\* The contents the sender hands over: every byte string that with its newline
\* fits in what the connection carries in one behaviour.
HopContents ==
    UNION {[1..n -> Bytes] : n \in 0..(MaxBytes - 1)}

\* The bytes sendMessage writes for a sequence of contents.
RECURSIVE EncodeAll(_)
EncodeAll(cs) ==
    IF cs = <<>> THEN <<>> ELSE Encode(Head(cs)) \o EncodeAll(Tail(cs))

\* Connect(ctx, address) on the Client of slot 1 with the Server's address
\* while the Server listens: the dial succeeds, the connection waits to be
\* accepted and processOutbound is started.
HopConnect ==
    /\ ~panicked
    /\ UNCHANGED usrVars
    /\ mu[1] = "free"
    /\ ~isClient[1]
    /\ listener[ServerT] = "open"
    /\ connState = "none"
    /\ conn' = [conn EXCEPT ![1] = "open"]
    /\ isClient' = [isClient EXCEPT ![1] = TRUE]
    /\ wg' = [wg EXCEPT ![1] = @ + 1]
    /\ outPc' = [outPc EXCEPT ![1] = "select"]
    /\ connState' = "pending"
    /\ UNCHANGED <<tInbound, tOutbound, inClosed, outClosed, listener,
                   isServer, tDone, mu, outMsg, closePc, wire>>
    /\ UNCHANGED <<listenPc, listenDone, acceptPc, rx, peerClosed, rdPc, rdPos,
                   text, scanErr, linesRead, got>>
    /\ UNCHANGED <<nodeVars, asmVars>>

\* A send of a Message of content c on GetOutboundChannel() of the Client of
\* slot 1.
HopProduce(c) ==
    /\ ~panicked
    /\ ~outClosed[1]
    /\ Len(tOutbound[1]) < ChanCap
    /\ Len(EncodeAll(sent)) + Len(Encode(c)) <= MaxBytes
    /\ tOutbound' = [tOutbound EXCEPT ![1] =
                        Append(@, [NoMsg EXCEPT !.Content = c, !.Source = NodeName])]
    /\ sent' = Append(sent, c)
    /\ UNCHANGED <<received, out2Pc, out2Msg, tRet, conn2, tree, loop2, inb>>
    /\ UNCHANGED <<tInbound, inClosed, outClosed, listener, conn, isServer,
                   isClient, tDone, wg, mu, outPc, outMsg, closePc, wire>>
    /\ UNCHANGED <<nodeVars, asmVars, srvVars>>

\* The connection carries one more of the bytes the Client wrote to the
\* Server's end.
HopDeliver ==
    /\ ~panicked
    /\ UNCHANGED usrVars
    /\ connState \in {"pending", "accepted"}
    /\ Len(rx) < Len(wire[1])
    /\ rx' = Append(rx, wire[1][Len(rx) + 1])
    /\ UNCHANGED <<listenPc, listenDone, acceptPc, connState, peerClosed, rdPc,
                   rdPos, text, scanErr, linesRead, got>>
    /\ UNCHANGED <<nodeVars, tVars, asmVars>>

NextHop ==
    \/ SrvListen
    \/ AcceptSelect
    \/ AcceptConn
    \/ HopConnect
    \/ \E c \in HopContents : HopProduce(c)
    \/ OutReceive(1)
    \/ OutSendMessage(1)
    \/ OutWrite(1)
    \/ HopDeliver
    \/ RdScan
    \/ RdSelect
    \/ RdSend

SpecHop == InitSrv /\ [][NextHop]_vars

\* Everything handed to the Client has been written, carried and read: the
\* outbound queue is empty, the draining loop holds nothing, the bytes written
\* are those of all the contents, and the reader waits for more with nothing
\* unread that could still give a line.
HopSettled ==
    /\ tOutbound[1] = <<>>
    /\ outPc[1] = "select"
    /\ wire[1] = EncodeAll(sent)
    /\ rx = wire[1]
    /\ rdPc \in {"scan", "done"}
    /\ (rdPc = "scan" => rdPos = Len(rx))

\* A content the line framing carries unchanged: not empty, no newline in it,
\* no carriage return at its end, and with its newline within the scanner's
\* buffer.
Plain(c) ==
    /\ c # <<>>
    /\ \A k \in 1..Len(c) : c[k] # LF
    /\ c[Len(c)] # CR
    /\ Len(c) < MaxToken

\* C35 as stated: once the contents handed to a Client have been written,
\* carried and read, the Server's inbound queue has got exactly one Message
\* for each of them, of the same content.
C35_Original ==
    HopSettled => Contents(Delivered) = sent

\* C35 (as amended): the same for contents that are not empty, hold no newline,
\* do not end in a carriage return and fit the scanner's buffer with their
\* newline; and whatever is sent, the Messages delivered are the non-empty
\* lines of the bytes written, a trailing carriage return dropped from each.
C35_PlainContentCrossesUnchanged ==
    /\ (HopSettled /\ \A k \in 1..Len(sent) : Plain(sent[k]))
        => Contents(Delivered) = sent
    /\ (HopSettled /\ rdPc = "scan")
        => Contents(Delivered)
              = NonEmptyLines([k \in 1..Len(SplitLF(rx)) |-> DropCR(SplitLF(rx)[k])])

\* C35 witness: the contents "a" and "a" have been handed to the Client,
\* written, carried and read, and two Messages of content "a" have been
\* delivered.
C35_Witness ==
    /\ HopSettled
    /\ sent = << <<"a">>, <<"a">> >>
    /\ Contents(Delivered) = sent

(***************************************************************************)
(* A running assembly with one configured child slot whose Client is still *)
(* connecting: the Node is fed, broadcasts, the bridge moves the child     *)
(* queue to the Client's outbound queue, and Connect is retried.           *)
(***************************************************************************)
\* A send of the next message on the Node's inbound queue: enough of them to
\* fill the Client's outbound queue and reach the child queue, all with room.
PendProduce ==
    /\ ~panicked
    /\ asmPc = "started"
    /\ ops < MaxOrdOps
    /\ Len(inbound) < ChanCap
    /\ inbound' = Append(inbound, OutMsg(ops + 1))
    /\ ops' = ops + 1
    /\ UNCHANGED <<numChildren, childrenOut, nodeDone, pc, msg, arg, idx, ret,
                   op, extIdx, extChan, extDone>>
    /\ UNCHANGED <<tVars, asmVars, srvVars, usrVars>>

NextPend ==
    \/ AsmStart
    \/ PendProduce
    \/ LoopReceive
    \/ BroadcastStep(LoopTask)
    \/ \E i \in ClientSlots : ConnLoop(i)
    \/ \E i \in ClientSlots : ConnectLock(i)
    \/ \E i \in ClientSlots : ConnectDial(i)
    \/ \E i \in ClientSlots : ConnBackoff(i)
    \/ \E i \in ClientSlots : BridgeReceive(i)
    \/ \E i \in ClientSlots : BridgeSend(i)
    \/ \E i \in ClientSlots : OutReceive(i)
    \/ \E i \in ClientSlots : OutSendMessage(i)
    \/ \E i \in ClientSlots : OutWrite(i)

SpecPend == InitOut /\ [][NextPend]_vars

\* The bridge and the draining loop of every Client are scheduled.
SpecPendFair ==
    /\ SpecPend
    /\ \A i \in ClientSlots :
        /\ WF_vars(BridgeReceive(i))
        /\ WF_vars(BridgeSend(i))
        /\ WF_vars(OutReceive(i))
        /\ WF_vars(OutSendMessage(i))
        /\ WF_vars(OutWrite(i))

\* The contents on their way to the connection of slot i, oldest first: the
\* lines written, the Message the draining loop holds, the Client's outbound
\* queue, the Message the bridge holds, and the child queue.
Chain(i) ==
    OutLines(i)
      \o (IF outPc[i] \in {"sendMessage", "write"} THEN <<outMsg[i].Content>> ELSE <<>>)
      \o Contents(tOutbound[i])
      \o (IF bridgePc[i] = "send" THEN <<bridgeMsg[i].Content>> ELSE <<>>)
      \o Contents(childrenOut[i])

\* Nothing of slot i is left to write.
Drained(i) ==
    /\ childrenOut[i] = <<>>
    /\ bridgePc[i] = "select"
    /\ tOutbound[i] = <<>>
    /\ outPc[i] = "select"

\* C37: what is broadcast to a configured slot whose Client has not connected
\* yet is kept, in the order of the broadcasts, in the child queue, with the
\* bridge and in the Client's outbound queue; nothing is written before a
\* Connect succeeds; no step but a failed write takes a content out of that
\* sequence or reorders it, a broadcast appends to it; and once the Client is
\* connected all that is held gets written.
C37_PendingAreHeldThenWritten ==
    /\ [](\A i \in ClientSlots :
            /\ conn[i] = "nil" => wire[i] = <<>>
            /\ IsSubseq(Chain(i), OutEnqueued))
    /\ [][\A i \in ClientSlots :
            ~OutWriteFailed(i) =>
                \/ Chain(i)' = Chain(i)
                \/ /\ pc[LoopTask] = "broadcast"
                   /\ Chain(i)' = Append(Chain(i), msg[LoopTask].Content)]_vars
    /\ \A i \in ClientSlots : conn[i] = "open" ~> Drained(i)

\* C37 witness: Connect has just succeeded and nothing is written yet; the
\* Client's outbound queue is full of the first broadcasts and the bridge
\* holds the next.
C37_Witness ==
    /\ conn[1] = "open"
    /\ wire[1] = <<>>
    /\ outPc[1] = "select"
    /\ Contents(tOutbound[1]) = [n \in 1..ChanCap |-> OutMsg(n).Content]
    /\ bridgePc[1] = "send"
    /\ bridgeMsg[1].Content = OutMsg(ChanCap + 1).Content

(***************************************************************************)
(* The inbound side of an assembly that is started and stopped: a peer     *)
(* writes lines to the Server, the reader puts them on the Server's        *)
(* inbound queue and the inbound bridge moves them to the Node's inbound   *)
(* queue.                                                                  *)
(***************************************************************************)
\* wireInbound, case msg := <-bn.Server.GetInboundChannel(): the next Message
\* of the Server's inbound queue, or the zero Message of a closed and empty
\* queue (the receive does not test whether the queue is open).
InbReceive ==
    /\ ~panicked
    /\ asmPc = "started"
    /\ inb.pc = "select"
    /\ \/ /\ Len(tInbound[ServerT]) > 0
          /\ inb' = [pc |-> "send", msg |-> Head(tInbound[ServerT])]
          /\ tInbound' = [tInbound EXCEPT ![ServerT] = Tail(@)]
       \/ /\ Len(tInbound[ServerT]) = 0
          /\ inClosed[ServerT]
          /\ inb' = [pc |-> "send", msg |-> NoMsg]
          /\ tInbound' = tInbound
    /\ UNCHANGED <<received, out2Pc, out2Msg, tRet, conn2, tree, loop2, sent>>
    /\ UNCHANGED <<tOutbound, inClosed, outClosed, listener, conn, isServer,
                   isClient, tDone, wg, mu, outPc, outMsg, closePc, wire>>
    /\ UNCHANGED <<nodeVars, asmVars, srvVars>>

\* wireInbound, case <-bn.ctx.Done() of the outer select: return.
InbCancelled ==
    /\ ~panicked
    /\ asmPc = "started"
    /\ inb.pc = "select"
    /\ bnDone
    /\ inb' = [pc |-> "stopped", msg |-> NoMsg]
    /\ UNCHANGED <<received, out2Pc, out2Msg, tRet, conn2, tree, loop2, sent>>
    /\ UNCHANGED <<nodeVars, tVars, asmVars, srvVars>>

\* wireInbound, the inner select: the send on the Node's inbound queue when
\* it has room, the return when bn.ctx is cancelled.
InbSend ==
    /\ ~panicked
    /\ inb.pc = "send"
    /\ \/ /\ Len(inbound) < ChanCap
          /\ inbound' = Append(inbound, inb.msg)
          /\ inb' = [pc |-> "select", msg |-> NoMsg]
       \/ /\ bnDone
          /\ inbound' = inbound
          /\ inb' = [pc |-> "stopped", msg |-> NoMsg]
    /\ UNCHANGED <<received, out2Pc, out2Msg, tRet, conn2, tree, loop2, sent>>
    /\ UNCHANGED <<numChildren, childrenOut, nodeDone, pc, msg, arg, idx, ret,
                   op, extIdx, extChan, extDone, ops>>
    /\ UNCHANGED <<tVars, asmVars, srvVars>>

InitIn ==
    /\ InitNode(0)
    /\ InitAssembly(<<>>, "created")
    /\ InitTransports
    /\ InitServer
    /\ InitUsers

NextIn ==
    \/ AsmStart
    \/ AsmListen
    \/ ListenCtxCancel
    \/ AcceptSelect
    \/ AcceptConn
    \/ AcceptError
    \/ PeerConnect
    \/ \E b \in Bytes : PeerWrite(b)
    \/ RdScan
    \/ RdSelect
    \/ RdSend
    \/ InbReceive
    \/ InbCancelled
    \/ InbSend
    \/ OutCancelled(ServerT)
    \/ StopCancel
    \/ StopNode
    \/ StopClients
    \/ StopServer
    \/ CloseCancel(ServerT)
    \/ CloseLock(ServerT)
    \/ CloseRelease(ServerT)
    \/ CloseWait(ServerT)
    \/ CloseInbound(ServerT)
    \/ CloseOutbound(ServerT)

SpecIn == InitIn /\ [][NextIn]_vars

\* C38, the inbound half: every Message on the Node's inbound queue is the
\* Message of a non-empty line the Server's reader has read; no zero Message
\* taken from the closed inbound queue of the Server is among them.
C38_NoPhantomForwarded ==
    \A k \in 1..Len(inbound) :
        \E j \in 1..Len(linesRead) :
            /\ KeepsLine(linesRead[j])
            /\ inbound[k] = LineMessage(linesRead[j])
=============================================================================
